---- MODULE Spec2Model ----
(***************************************************************************)
(* The JSON extraction-and-repair core of the repository analyzer          *)
(* (src/utils.py: extract_json_from_llm_response, fix_malformed_json).     *)
(*                                                                         *)
(* Texts are sequences of characters; a character is a one-character       *)
(* string.  TLA+ string literals cannot hold a backtick, so the backtick   *)
(* is the token BT.  Indices are 0-based offsets as in Python, so that the *)
(* index arithmetic of the source can be kept as written.                  *)
(***************************************************************************)
EXTENDS Integers, Sequences, FiniteSets, TLC

DQ == "\""
BS == "\\"
BT == "BT"
NL == "\n"
EOF == "EOF"

\* str.strip()/rstrip() and the regex class \s (ASCII part)
PyWS == {" ", "\t", "\n", "\r", "\f"}
\* json.decoder WHITESPACE
JsonWS == {" ", "\t", "\n", "\r"}
\* characters below 0x20, refused inside a JSON string (strict mode)
Control == {"\t", "\n", "\r", "\f"}
Digits == {"0", "1", "2", "3", "4", "5", "6", "7", "8", "9"}
Lower == {"a", "b", "c", "d", "e", "f", "g", "h", "i", "j", "k", "l", "m",
          "n", "o", "p", "q", "r", "s", "t", "u", "v", "w", "x", "y", "z"}
Upper == {"A", "B", "C", "D", "E", "F", "G", "H", "I", "J", "K", "L", "M",
          "N", "O", "P", "Q", "R", "S", "T", "U", "V", "W", "X", "Y", "Z"}
\* [a-zA-Z_]
IdentStart == Lower \cup Upper \cup {"_"}
\* [a-zA-Z0-9_]
IdentChar == IdentStart \cup Digits
\* [a-zA-Z0-9_\s-]
BareChar == IdentChar \cup PyWS \cup {"-"}
HexDigits == Digits \cup {"a", "b", "c", "d", "e", "f", "A", "B", "C", "D", "E", "F"}

(***************************************************************************)
(* Python string primitives                                                *)
(***************************************************************************)
\* s[i], or EOF outside the text
At(s, i) == IF i >= 0 /\ i < Len(s) THEN s[i + 1] ELSE EOF

\* s[a:b] for a, b >= 0 (Python clamps the slice to the text)
Slice(s, a, b) ==
    LET hi == IF b > Len(s) THEN Len(s) ELSE b
    IN  IF a >= hi THEN <<>> ELSE SubSeq(s, a + 1, hi)

\* s[i:i+len(pat)] == pat
StartsWithAt(s, pat, i) ==
    /\ i >= 0
    /\ i + Len(pat) <= Len(s)
    /\ \A k \in 1..Len(pat) : s[i + k] = pat[k]

Min(S) == CHOOSE x \in S : \A y \in S : x <= y
Max(S) == CHOOSE x \in S : \A y \in S : x >= y

\* s.find(pat)
Find(s, pat) ==
    LET hits == {i \in 0..(Len(s) - Len(pat)) : StartsWithAt(s, pat, i)}
    IN  IF hits = {} THEN -1 ELSE Min(hits)

\* s.rfind(pat)
RFind(s, pat) ==
    LET hits == {i \in 0..(Len(s) - Len(pat)) : StartsWithAt(s, pat, i)}
    IN  IF hits = {} THEN -1 ELSE Max(hits)

\* s.rstrip()
RStrip(s) ==
    LET keep == {n \in 1..Len(s) : s[n] \notin PyWS}
    IN  IF keep = {} THEN <<>> ELSE Slice(s, 0, Max(keep))

\* s.strip()
Strip(s) ==
    LET keep == {n \in 1..Len(s) : s[n] \notin PyWS}
    IN  IF keep = {} THEN <<>> ELSE Slice(s, Min(keep) - 1, Max(keep))

(***************************************************************************)
(* json.loads.  A parsed value is a record [t, v]: t the JSON type and v   *)
(* its content (the characters of a string, the lexeme of a number, the    *)
(* name of a literal, the elements of an array, the key -> value function  *)
(* of an object: a repeated key keeps its last value, as a dict does).     *)
(* Two numbers are equal here when their lexemes are, which is finer than  *)
(* Python's 1 == 1.0; a \uXXXX escape decodes to one token.                *)
(***************************************************************************)
NoVal == [t |-> "none", v |-> <<>>]
Fail == [ok |-> FALSE, pos |-> 0, val |-> NoVal]
Ok(p, x) == [ok |-> TRUE, pos |-> p, val |-> x]

\* json.decoder BACKSLASH ("BSP" stands for the backspace character)
BACKSLASH ==
    (DQ :> DQ) @@ (BS :> BS) @@ ("/" :> "/") @@ ("b" :> "BSP") @@
    ("f" :> "\f") @@ ("n" :> "\n") @@ ("r" :> "\r") @@ ("t" :> "\t")

\* WHITESPACE.match(s, i).end()
SkipWs(s, i) ==
    IF At(s, i) \notin JsonWS THEN i
    ELSE Min({j \in i..Len(s) : At(s, j) \notin JsonWS})

\* py_scanstring(s, end, strict=True); i is the offset after the opening quote
RECURSIVE ScanString(_, _, _)
ScanString(s, i, acc) ==
    LET c == At(s, i) IN
    IF i >= Len(s) THEN Fail
    ELSE IF c = DQ THEN Ok(i + 1, acc)
    ELSE IF c \in Control THEN Fail
    ELSE IF c # BS THEN ScanString(s, i + 1, Append(acc, c))
    ELSE LET e == At(s, i + 1) IN
         IF e \in DOMAIN BACKSLASH
         THEN ScanString(s, i + 2, Append(acc, BACKSLASH[e]))
         ELSE IF e = "u" /\ \A k \in 2..5 : At(s, i + k) \in HexDigits
         THEN ScanString(s, i + 6,
                  Append(acc, "U+" \o At(s, i + 2) \o At(s, i + 3)
                                   \o At(s, i + 4) \o At(s, i + 5)))
         ELSE Fail

RECURSIVE DigitsEnd(_, _)
DigitsEnd(s, i) == IF At(s, i) \in Digits THEN DigitsEnd(s, i + 1) ELSE i

\* end of the match of NUMBER_RE at i, -1 when it does not match:
\* (-?(?:0|[1-9]\d*))(\.\d+)?([eE][-+]?\d+)?
NumberEnd(s, i) ==
    LET a == IF At(s, i) = "-" THEN i + 1 ELSE i
        b == IF At(s, a) = "0" THEN a + 1
             ELSE IF At(s, a) \in Digits THEN DigitsEnd(s, a)
             ELSE -1
        c == IF At(s, b) = "." /\ At(s, b + 1) \in Digits
             THEN DigitsEnd(s, b + 1) ELSE b
        g == IF At(s, c + 1) \in {"-", "+"} THEN c + 2 ELSE c + 1
        d == IF At(s, c) \in {"e", "E"} /\ At(s, g) \in Digits
             THEN DigitsEnd(s, g) ELSE c
    IN  IF b = -1 THEN -1 ELSE d

Chars_null == <<"n", "u", "l", "l">>
Chars_true == <<"t", "r", "u", "e">>
Chars_false == <<"f", "a", "l", "s", "e">>
Chars_NaN == <<"N", "a", "N">>
Chars_Infinity == <<"I", "n", "f", "i", "n", "i", "t", "y">>
Chars_NegInfinity == <<"-">> \o Chars_Infinity

Str(x) == [t |-> "str", v |-> x]
Num(x) == [t |-> "num", v |-> x]
Lit(x) == [t |-> "lit", v |-> x]
Arr(x) == [t |-> "arr", v |-> x]
Obj(x) == [t |-> "obj", v |-> x]

\* dict item assignment: a repeated key is overwritten
Put(f, k, x) == [y \in DOMAIN f \cup {k} |-> IF y = k THEN x ELSE f[y]]

RECURSIVE ScanOnce(_, _)
RECURSIVE ParseMembers(_, _, _)
RECURSIVE ParseElems(_, _, _)

\* JSONObject; end is the offset after the opening brace
ParseObject(s, end) ==
    LET e1 == IF At(s, end) # DQ THEN SkipWs(s, end) ELSE end IN
    IF At(s, e1) = "}" THEN Ok(e1 + 1, Obj(<<>>))
    ELSE IF At(s, e1) # DQ THEN Fail
    ELSE ParseMembers(s, e1 + 1, <<>>)

\* the member loop of JSONObject; end is the offset after a key's opening quote
ParseMembers(s, end, acc) ==
    LET k == ScanString(s, end, <<>>) IN
    IF ~k.ok THEN Fail ELSE
    LET c1 == IF At(s, k.pos) # ":" THEN SkipWs(s, k.pos) ELSE k.pos IN
    IF At(s, c1) # ":" THEN Fail ELSE
    LET x == ScanOnce(s, SkipWs(s, c1 + 1)) IN
    IF ~x.ok THEN Fail ELSE
    LET acc2 == Put(acc, k.val, x.val)
        n == SkipWs(s, x.pos)
        q == SkipWs(s, n + 1)
    IN  IF At(s, n) = "}" THEN Ok(n + 1, Obj(acc2))
        ELSE IF At(s, n) # "," THEN Fail
        ELSE IF At(s, q) # DQ THEN Fail
        ELSE ParseMembers(s, q + 1, acc2)

\* JSONArray; end is the offset after the opening bracket
ParseArray(s, end) ==
    LET e1 == SkipWs(s, end) IN
    IF At(s, e1) = "]" THEN Ok(e1 + 1, Arr(<<>>))
    ELSE ParseElems(s, e1, <<>>)

\* the element loop of JSONArray
ParseElems(s, end, acc) ==
    LET x == ScanOnce(s, end) IN
    IF ~x.ok THEN Fail ELSE
    LET acc2 == Append(acc, x.val)
        n == SkipWs(s, x.pos)
    IN  IF At(s, n) = "]" THEN Ok(n + 1, Arr(acc2))
        ELSE IF At(s, n) # "," THEN Fail
        ELSE ParseElems(s, SkipWs(s, n + 1), acc2)

\* json.scanner _scan_once
ScanOnce(s, i) ==
    LET c == At(s, i) IN
    IF c = DQ THEN
        LET r == ScanString(s, i + 1, <<>>) IN
        IF r.ok THEN Ok(r.pos, Str(r.val)) ELSE Fail
    ELSE IF c = "{" THEN ParseObject(s, i + 1)
    ELSE IF c = "[" THEN ParseArray(s, i + 1)
    ELSE IF StartsWithAt(s, Chars_null, i) THEN Ok(i + 4, Lit(Chars_null))
    ELSE IF StartsWithAt(s, Chars_true, i) THEN Ok(i + 4, Lit(Chars_true))
    ELSE IF StartsWithAt(s, Chars_false, i) THEN Ok(i + 5, Lit(Chars_false))
    ELSE IF NumberEnd(s, i) # -1
         THEN Ok(NumberEnd(s, i), Num(Slice(s, i, NumberEnd(s, i))))
    ELSE IF StartsWithAt(s, Chars_NaN, i) THEN Ok(i + 3, Num(Chars_NaN))
    ELSE IF StartsWithAt(s, Chars_Infinity, i) THEN Ok(i + 8, Num(Chars_Infinity))
    ELSE IF StartsWithAt(s, Chars_NegInfinity, i)
         THEN Ok(i + 9, Num(Chars_NegInfinity))
    ELSE Fail

\* json.loads(s): the value, or JSONDecodeError (ok = FALSE)
JsonLoads(s) ==
    LET r == ScanOnce(s, SkipWs(s, 0)) IN
    IF r.ok /\ SkipWs(s, r.pos) = Len(s) THEN r ELSE Fail

(***************************************************************************)
(* The regex passes of fix_malformed_json.  Each re.sub scans the text     *)
(* left to right: where the pattern matches at offset i the replacement is *)
(* emitted and the scan resumes after the match, otherwise the character   *)
(* is copied.  No pattern matches the empty text.  A match is the record   *)
(* [hit, end, rep]: end is the offset after the match, rep the expansion   *)
(* of the replacement template.                                            *)
(***************************************************************************)
NoMatch == [hit |-> FALSE, end |-> 0, rep |-> <<>>]
Hit(e, r) == [hit |-> TRUE, end |-> e, rep |-> r]

Fence == <<BT, BT, BT>>
FenceJson == <<BT, BT, BT, "j", "s", "o", "n">>

\* end of the greedy \s* at i
RECURSIVE WsEnd(_, _)
WsEnd(s, i) == IF At(s, i) \in PyWS THEN WsEnd(s, i + 1) ELSE i

\* end of the run of characters of class cls at i
RECURSIVE RunEnd(_, _, _)
RunEnd(s, i, cls) == IF At(s, i) \in cls THEN RunEnd(s, i + 1, cls) ELSE i

\* offset of the first double quote at or after i, -1 when there is none
RECURSIVE NextQuote(_, _)
NextQuote(s, i) ==
    IF i >= Len(s) THEN -1
    ELSE IF s[i + 1] = DQ THEN i
    ELSE NextQuote(s, i + 1)

\* r'```json\s*' -> ''
MatchFenceOpen(s, i) ==
    IF StartsWithAt(s, FenceJson, i)
    THEN Hit(WsEnd(s, i + Len(FenceJson)), <<>>)
    ELSE NoMatch

\* r'\s*```' -> ''
MatchFenceClose(s, i) ==
    LET k == WsEnd(s, i) IN
    IF StartsWithAt(s, Fence, k) THEN Hit(k + Len(Fence), <<>>) ELSE NoMatch

\* r'([{,]\s*)([a-zA-Z_][a-zA-Z0-9_]*?)(\s*:)' -> r'\1"\2"\3'
\* (the lazy identifier ends where \s*: matches, which is the end of the
\* identifier run: its characters are neither whitespace nor a colon)
MatchUnquotedKey(s, i) ==
    LET k == WsEnd(s, i + 1)
        m == RunEnd(s, k + 1, IdentChar)
        c == WsEnd(s, m)
    IN  IF At(s, i) \in {"{", ","} /\ At(s, k) \in IdentStart /\ At(s, c) = ":"
        THEN Hit(c + 1, Slice(s, i, k) \o <<DQ>> \o Slice(s, k, m) \o <<DQ>>
                        \o Slice(s, m, c + 1))
        ELSE NoMatch

\* r',(\s*[}\]])' -> r'\1'
MatchTrailingComma(s, i) ==
    LET k == WsEnd(s, i + 1) IN
    IF At(s, i) = "," /\ At(s, k) \in {"}", "]"}
    THEN Hit(k + 1, Slice(s, i + 1, k + 1))
    ELSE NoMatch

\* r'([\]"}])\s*([\[{"])' -> r'\1,\2'
MatchMissingComma(s, i) ==
    LET k == WsEnd(s, i + 1) IN
    IF At(s, i) \in {"]", DQ, "}"} /\ At(s, k) \in {"[", "{", DQ}
    THEN Hit(k + 1, <<At(s, i), ",", At(s, k)>>)
    ELSE NoMatch

\* r':\s*([a-zA-Z_][a-zA-Z0-9_\s-]*?)([,}\]])' -> r':"\1"\2'
\* (the pattern has no exclusion for true, false and null)
MatchBareValue(s, i) ==
    LET k == WsEnd(s, i + 1)
        m == RunEnd(s, k + 1, BareChar)
    IN  IF At(s, i) = ":" /\ At(s, k) \in IdentStart /\ At(s, m) \in {",", "}", "]"}
        THEN Hit(m + 1, <<":", DQ>> \o Slice(s, k, m) \o <<DQ, At(s, m)>>)
        ELSE NoMatch

\* r'(?<!\\)"([^"]*?)(?<!\\)":\s*"([^"]*[^\\])"([^"]*)"' -> r'"\1":"\2\\"\\3"'
\* j: the quote closing group 1; k: the quote opening the value; q1: the
\* next quote.  Group 2 is tried longest first: [^"]* up to q1 and [^\\] on
\* the quote q1 itself (then a quote must follow at q1 + 1), and failing
\* that [^"]* one shorter and [^\\] on the character before q1.  The
\* template writes a backslash, a quote, a backslash and the digit 3: its
\* "\\3" is no group reference, so group 3 is dropped.
MatchEscapedQuote(s, i) ==
    LET j == NextQuote(s, i + 1)
        k == WsEnd(s, j + 2)
        q1 == NextQuote(s, k + 1)
        q3 == NextQuote(s, q1 + 2)
        q2 == NextQuote(s, q1 + 1)
        rep(g2) == <<DQ>> \o Slice(s, i + 1, j) \o <<DQ, ":", DQ>> \o g2
                   \o <<BS, DQ, BS, "3", DQ>>
    IN  IF /\ At(s, i) = DQ /\ At(s, i - 1) # BS
           /\ j # -1 /\ At(s, j - 1) # BS
           /\ At(s, j + 1) = ":" /\ At(s, k) = DQ
           /\ q1 # -1
        THEN IF At(s, q1 + 1) = DQ /\ q3 # -1
             THEN Hit(q3 + 1, rep(Slice(s, k + 1, q1 + 1)))
             ELSE IF q1 > k + 1 /\ At(s, q1 - 1) # BS /\ q2 # -1
             THEN Hit(q2 + 1, rep(Slice(s, k + 1, q1)))
             ELSE NoMatch
        ELSE NoMatch

Match(p, s, i) ==
    CASE p = "fence_open" -> MatchFenceOpen(s, i)
      [] p = "fence_close" -> MatchFenceClose(s, i)
      [] p = "unquoted_key" -> MatchUnquotedKey(s, i)
      [] p = "trailing_comma" -> MatchTrailingComma(s, i)
      [] p = "missing_comma" -> MatchMissingComma(s, i)
      [] p = "bare_value" -> MatchBareValue(s, i)
      [] p = "escaped_quote" -> MatchEscapedQuote(s, i)

RECURSIVE SubFrom(_, _, _, _)
SubFrom(p, s, i, acc) ==
    IF i >= Len(s) THEN acc
    ELSE LET m == Match(p, s, i) IN
         IF m.hit THEN SubFrom(p, s, m.end, acc \o m.rep)
         ELSE SubFrom(p, s, i + 1, Append(acc, s[i + 1]))

\* re.sub(pattern p, its replacement, s)
ReSub(p, s) == SubFrom(p, s, 0, <<>>)

\* lines 352-356: keep the span from the first { to the last }
TrimToBraces(s) ==
    LET start_idx == Find(s, <<"{">>)
        end_idx == RFind(s, <<"}">>) + 1
    IN  IF start_idx # -1 /\ end_idx # 0 THEN Slice(s, start_idx, end_idx) ELSE s

\* the passes of the except branch, in the order of the source
Passes == <<"fence_open", "fence_close", "unquoted_key", "trailing_comma",
            "missing_comma", "bare_value", "escaped_quote", "trim">>

ApplyPass(p, s) == IF p = "trim" THEN TrimToBraces(s) ELSE ReSub(p, s)

RECURSIVE ApplyPasses(_, _)
ApplyPasses(n, s) == IF n = 0 THEN s ELSE ApplyPass(Passes[n], ApplyPasses(n - 1, s))

\* text left by the whole pass sequence
Repaired(s) == ApplyPasses(Len(Passes), s)

\* fix_malformed_json(json_str): the returned text, or ValueError
FixMalformedJson(json_str) ==
    IF JsonLoads(json_str).ok THEN [ok |-> TRUE, text |-> json_str]
    ELSE IF JsonLoads(Repaired(json_str)).ok
         THEN [ok |-> TRUE, text |-> Repaired(json_str)]
         ELSE [ok |-> FALSE, text |-> <<>>]

(***************************************************************************)
(* extract_json_from_llm_response                                          *)
(***************************************************************************)
PreviewLen == 200

\* the messages of the ValueErrors of lines 295 and 306
NoJsonFound == "No JSON content found in response"
NoClosing == "No closing JSON structure found"

\* Window with the start left on the marker (start_idx not advanced by
\* len(start_pattern))
Window_KeepsMarker(response) ==
    LET start_idx == Find(response, FenceJson)
        brace_idx == Find(response, <<"{">>)
        content_start == IF start_idx = -1 THEN brace_idx ELSE start_idx
        end_idx == RFind(RStrip(response), Fence)
        brace_end == RFind(RStrip(response), <<"}">>)
    IN  IF start_idx = -1 /\ brace_idx = -1
        THEN [ok |-> FALSE, err |-> NoJsonFound, text |-> <<>>]
        ELSE IF end_idx = -1 \/ end_idx < content_start
        THEN IF brace_end = -1
             THEN [ok |-> FALSE, err |-> NoClosing, text |-> <<>>]
             ELSE [ok |-> TRUE, err |-> "",
                   text |-> Strip(Slice(response, content_start, brace_end + 1))]
        ELSE [ok |-> TRUE, err |-> "",
              text |-> Strip(Slice(response, content_start, end_idx))]

\* Window without the .strip() of the slice
Window_NoStrip(response) ==
    LET start_idx == Find(response, FenceJson)
        brace_idx == Find(response, <<"{">>)
        content_start == IF start_idx = -1 THEN brace_idx
                         ELSE start_idx + Len(FenceJson)
        end_idx == RFind(RStrip(response), Fence)
        brace_end == RFind(RStrip(response), <<"}">>)
    IN  IF start_idx = -1 /\ brace_idx = -1
        THEN [ok |-> FALSE, err |-> NoJsonFound, text |-> <<>>]
        ELSE IF end_idx = -1 \/ end_idx < content_start
        THEN IF brace_end = -1
             THEN [ok |-> FALSE, err |-> NoClosing, text |-> <<>>]
             ELSE [ok |-> TRUE, err |-> "",
                   text |-> Slice(response, content_start, brace_end + 1)]
        ELSE [ok |-> TRUE, err |-> "",
              text |-> Slice(response, content_start, end_idx)]

\* Window closed at the first closing boundary after the start instead of
\* the last
Window_FirstBlock(response) ==
    LET start_idx == Find(response, FenceJson)
        brace_idx == Find(response, <<"{">>)
        content_start == IF start_idx = -1 THEN brace_idx
                         ELSE start_idx + Len(FenceJson)
        rest == Slice(RStrip(response), content_start, Len(response))
        end_idx == IF Find(rest, Fence) = -1 THEN -1
                   ELSE content_start + Find(rest, Fence)
        brace_end == IF Find(rest, <<"}">>) = -1 THEN -1
                     ELSE content_start + Find(rest, <<"}">>)
    IN  IF start_idx = -1 /\ brace_idx = -1
        THEN [ok |-> FALSE, err |-> NoJsonFound, text |-> <<>>]
        ELSE IF end_idx = -1
        THEN IF brace_end = -1
             THEN [ok |-> FALSE, err |-> NoClosing, text |-> <<>>]
             ELSE [ok |-> TRUE, err |-> "",
                   text |-> Strip(Slice(response, content_start, brace_end + 1))]
        ELSE [ok |-> TRUE, err |-> "",
              text |-> Strip(Slice(response, content_start, end_idx))]

\* Window taking a closing marker wherever it stands (no test of
\* end_idx < content_start)
Window_NoOrderCheck(response) ==
    LET start_idx == Find(response, FenceJson)
        brace_idx == Find(response, <<"{">>)
        content_start == IF start_idx = -1 THEN brace_idx
                         ELSE start_idx + Len(FenceJson)
        end_idx == RFind(RStrip(response), Fence)
        brace_end == RFind(RStrip(response), <<"}">>)
    IN  IF start_idx = -1 /\ brace_idx = -1
        THEN [ok |-> FALSE, err |-> NoJsonFound, text |-> <<>>]
        ELSE IF end_idx = -1
        THEN IF brace_end = -1
             THEN [ok |-> FALSE, err |-> NoClosing, text |-> <<>>]
             ELSE [ok |-> TRUE, err |-> "",
                   text |-> Strip(Slice(response, content_start, brace_end + 1))]
        ELSE [ok |-> TRUE, err |-> "",
              text |-> Strip(Slice(response, content_start, end_idx))]

\* the content window of lines 286-309: the text handed to
\* fix_malformed_json, or the ValueError raised on the way
Window(response) ==
    LET start_idx == Find(response, FenceJson)
        brace_idx == Find(response, <<"{">>)
        content_start == IF start_idx = -1 THEN brace_idx
                         ELSE start_idx + Len(FenceJson)
        end_idx == RFind(RStrip(response), Fence)
        brace_end == RFind(RStrip(response), <<"}">>)
    IN  IF start_idx = -1 /\ brace_idx = -1
        THEN [ok |-> FALSE, err |-> NoJsonFound, text |-> <<>>]
        ELSE IF end_idx = -1 \/ end_idx < content_start
        THEN IF brace_end = -1
             THEN [ok |-> FALSE, err |-> NoClosing, text |-> <<>>]
             ELSE [ok |-> TRUE, err |-> "",
                   text |-> Strip(Slice(response, content_start, brace_end + 1))]
        ELSE [ok |-> TRUE, err |-> "",
              text |-> Strip(Slice(response, content_start, end_idx))]

\* Preview without the truncation
Preview_Untruncated(response) == response

\* line 317: the preview carried by the error message
Preview(response) ==
    IF Len(response) > PreviewLen
    THEN Slice(response, 0, PreviewLen) \o <<".", ".", ".">>
    ELSE response

(***************************************************************************)
(* The callers' inputs.  A case is how a caller built the text it passes:  *)
(* fam names the family, text is the argument, doc the document the text   *)
(* was serialised from (NoVal when there is none) and base the text the    *)
(* family was derived from.                                                *)
(***************************************************************************)
MaxNest == 1
MaxFrags == 3

Case(f, x, d, b) == [fam |-> f, text |-> x, doc |-> d, base |-> b]
NoCase == Case("none", <<>>, NoVal, <<>>)

KeyA == <<"a">>
KeyB == <<"b">>

Scalars ==
    { Num(<<"1">>), Lit(Chars_true), Lit(Chars_null), Str(<<"x">>), Str(<<>>),
      Str(<<"y", DQ, "}", BT, BT, BT>>) }

RECURSIVE Values(_)
Values(n) ==
    IF n = 0 THEN Scalars
    ELSE Scalars \cup {Arr(<<>>), Obj(<<>>), Arr(<<Num(<<"1">>), Str(<<"x">>)>>)}
         \cup {Arr(<<x>>) : x \in Values(n - 1)}
         \cup {Obj(KeyA :> x) : x \in Values(n - 1)}

\* documents: mappings with up to two members
Docs ==
    {Obj(<<>>)}
    \cup {Obj(KeyA :> x) : x \in Values(MaxNest)}
    \cup {Obj(KeyB :> y) : y \in Scalars}
    \cup {Obj((KeyA :> x) @@ (KeyB :> y)) : x \in Values(MaxNest), y \in Scalars}

\* json.dumps: separators of the default and of the compact form; q tells
\* whether keys are written quoted (FALSE gives the bare-identifier defect)
Style(sep, col, q) == [sep |-> sep, col |-> col, q |-> q]
DefaultStyle == Style(<<",", " ">>, <<":", " ">>, TRUE)
CompactStyle == Style(<<",">>, <<":">>, TRUE)
Styles == {DefaultStyle, CompactStyle}
Bare(st) == Style(st.sep, st.col, FALSE)

\* json.encoder ESCAPE
RECURSIVE EscapeChars(_)
EscapeChars(x) ==
    IF x = <<>> THEN <<>>
    ELSE (CASE Head(x) = DQ -> <<BS, DQ>>
            [] Head(x) = BS -> <<BS, BS>>
            [] Head(x) = "\n" -> <<BS, "n">>
            [] Head(x) = "\t" -> <<BS, "t">>
            [] OTHER -> <<Head(x)>>) \o EscapeChars(Tail(x))

DumpKey(k, st) == IF st.q THEN <<DQ>> \o EscapeChars(k) \o <<DQ>> ELSE k

RECURSIVE Dumps(_, _)
RECURSIVE DumpElems(_, _)

\* one member of an object: key, colon, value
Member(d, k, st) == DumpKey(k, st) \o st.col \o Dumps(d.v[k], st)

\* the members of d in key order, separated by gap
Members(d, st, gap) ==
    IF DOMAIN d.v = {} THEN <<>>
    ELSE IF DOMAIN d.v = {KeyA, KeyB}
         THEN Member(d, KeyA, st) \o gap \o Member(d, KeyB, st)
         ELSE Member(d, CHOOSE k \in DOMAIN d.v : TRUE, st)

DumpElems(xs, st) ==
    IF xs = <<>> THEN <<>>
    ELSE IF Len(xs) = 1 THEN Dumps(xs[1], st)
    ELSE Dumps(xs[1], st) \o st.sep \o DumpElems(Tail(xs), st)

Dumps(d, st) ==
    CASE d.t = "str" -> <<DQ>> \o EscapeChars(d.v) \o <<DQ>>
      [] d.t \in {"num", "lit"} -> d.v
      [] d.t = "arr" -> <<"[">> \o DumpElems(d.v, st) \o <<"]">>
      [] d.t = "obj" -> <<"{">> \o Members(d, st, st.sep) \o <<"}">>

\* the root object written with gap in place of the member separator
DumpsGap(d, st, gap) == <<"{">> \o Members(d, st, gap) \o <<"}">>

\* offsets of s that lie outside its string literals
RECURSIVE OutsideFrom(_, _, _, _)
OutsideFrom(s, i, inStr, acc) ==
    IF i >= Len(s) THEN acc
    ELSE IF inStr
         THEN IF s[i + 1] = BS THEN OutsideFrom(s, i + 2, TRUE, acc)
              ELSE OutsideFrom(s, i + 1, s[i + 1] # DQ, acc)
         ELSE OutsideFrom(s, i + 1, s[i + 1] = DQ, acc \cup {i})
Outside(s) == OutsideFrom(s, 0, FALSE, {})

\* offsets of the closing braces and brackets of the JSON text s
Closers(s) == {i \in Outside(s) : s[i + 1] \in {"}", "]"}}

InsertAt(s, i, c) == Slice(s, 0, i) \o <<c>> \o Slice(s, i, Len(s))

ProseBefore == { <<"S", "e", "e", ":">>, <<"{", "x", "}", " ", BT, "y", BT, " ">> }
ProseAfter == { <<"E", "n", "d", ".">>, <<"}", " ", DQ, "z", DQ, " ", "{">> }

\* prose, a fenced block opened by the json marker, more prose
Fenced(pre, body, post) ==
    pre \o <<NL>> \o FenceJson \o <<NL>> \o body \o <<NL>> \o Fence \o <<NL>> \o post

\* fenced blocks whose content is not the serialisation of a document
RawBodies ==
    { <<"{", "a", ":", " ", "1", "}">>, <<" ", "x", " ", "y", "\t">>, <<>>,
      <<"[", "1", ",", "]">>, <<"{", "}", NL, NL, "{", "}">> }

FencedCases ==
    {Case("fenced", Fenced(pre, Dumps(d, st), post), d, Dumps(d, st)) :
        pre \in ProseBefore, post \in ProseAfter, d \in Docs, st \in Styles}
    \cup {Case("fenced_raw", Fenced(pre, b, post), NoVal, Strip(b)) :
        pre \in ProseBefore, post \in ProseAfter, b \in RawBodies}

Rep(c, n) == [i \in 1..n |-> c]

\* texts that are JSON as they stand, objects or not, some padded
PlainJson ==
    { <<"1">>, <<" ", "1", NL>>, <<"[", "1", ",", " ", "2", "]">>, Chars_null,
      <<DQ, "x", DQ>>, <<NL, "{", "}", " ">>, <<"-", "2", ".", "5", "e", "3">> }

\* texts without any brace
Braceless ==
    (PlainJson \ {<<NL, "{", "}", " ">>})
    \cup { <<>>, <<"h", "e", "l", "l", "o">>, FenceJson, Fence,
           FenceJson \o <<NL, "[", "1", "]", NL>> \o Fence,
           FenceJson \o <<" ", "[", "1", ",", "]", " ">> \o Fence,
           FenceJson \o <<" ", "x", " ">> \o Fence,
           Fence \o <<"1">> \o FenceJson }
    \cup {Rep("x", n) : n \in {PreviewLen - 1, PreviewLen, PreviewLen + 1, PreviewLen + 50}}
    \cup {Rep(" ", PreviewLen) \o <<"1">>}

RECURSIVE Concat(_)
Concat(xs) == IF xs = <<>> THEN <<>> ELSE Head(xs) \o Concat(Tail(xs))

\* every concatenation of at most n fragments
FragTexts(frags, n) ==
    UNION {{Concat(xs) : xs \in [1..k -> frags]} : k \in 0..n}

FixFrags == { <<"{">>, <<"}">>, <<DQ, "a", DQ>>, <<",">>, <<"1">>, <<" ">> }
ExtractFrags == { <<"{">>, <<"}">>, <<"1">>, <<"x">>, FenceJson, Fence }

ValidCases ==
    {Case("valid", Dumps(d, st), d, Dumps(d, st)) : d \in Docs, st \in Styles}
    \cup {Case("valid", x, NoVal, x) : x \in PlainJson}

\* object texts whose only defect is that the keys are bare identifiers
BareKeyCases ==
    {Case("bare_keys", Dumps(d, Bare(st)), d, Dumps(d, st)) :
        d \in Docs \ {Obj(<<>>)}, st \in Styles}

\* valid object texts with one comma inserted before a closing brace or bracket
TrailingCommaCases ==
    UNION {{Case("trailing_comma", InsertAt(Dumps(d, st), i, ","), d, Dumps(d, st)) :
               i \in Closers(Dumps(d, st))} : d \in Docs, st \in Styles}

\* does the serialisation of x end with a quote, a brace or a bracket
EndsValue(x) == x.t \in {"str", "arr", "obj"}

\* object texts whose two members lack the separating comma, the first
\* value ending with a quote, a brace or a bracket
MissingCommaCases ==
    {Case("missing_comma", DumpsGap(d, st, gap), d, Dumps(d, st)) :
        d \in {e \in Docs : DOMAIN e.v = {KeyA, KeyB} /\ EndsValue(e.v[KeyA])},
        st \in Styles,
        gap \in {<<>>, <<" ">>}}

FixCases ==
    ValidCases \cup BareKeyCases \cup TrailingCommaCases \cup MissingCommaCases
    \cup {Case("raw", x, NoVal, x) : x \in FragTexts(FixFrags, MaxFrags)}

\* texts with two JSON-like blocks and prose between them: both fenced, both
\* bare, a closing marker between two bare blocks, a marker before both
BlockA == <<"{", DQ, "a", DQ, ":", " ", "1", "}">>
BlockB == <<"{", DQ, "b", DQ, ":", " ", "2", "}">>
Between == <<" ", "a", "n", "d", " ">>

MultiBlockTexts ==
    { FenceJson \o <<NL>> \o BlockA \o <<NL>> \o Fence \o Between
        \o FenceJson \o <<NL>> \o BlockB \o <<NL>> \o Fence,
      BlockA \o Between \o BlockB,
      <<"1", " ">> \o BlockA \o <<" ">> \o Fence \o Between \o BlockB \o <<NL>>,
      Fence \o <<" ">> \o BlockA \o Between \o BlockB \o <<" ", "x">>,
      <<"[">> \o BlockA \o <<",", " ">> \o BlockB \o <<"]", " ", "x">> }

MultiBlockCases == {Case("multi_block", x, NoVal, x) : x \in MultiBlockTexts}

ExtractCases ==
    FencedCases
    \cup MultiBlockCases
    \cup {Case("valid", x, NoVal, x) : x \in PlainJson}
    \cup {Case("valid", Dumps(d, DefaultStyle), d, Dumps(d, DefaultStyle)) :
             d \in {Obj(<<>>), Obj(KeyA :> Num(<<"1">>))}}
    \cup {Case("raw", x, NoVal, x) : x \in Braceless \cup FragTexts(ExtractFrags, MaxFrags)}

(***************************************************************************)
(* clean_github_url, is_valid_github_url, extract_owner_and_repo           *)
(***************************************************************************)
DotGit == <<".", "g", "i", "t">>
TreeDir == <<"/", "t", "r", "e", "e", "/">>
BlobDir == <<"/", "b", "l", "o", "b", "/">>

\* str.endswith
EndsWith(s, suf) ==
    Len(s) >= Len(suf) /\ Slice(s, Len(s) - Len(suf), Len(s)) = suf

\* str.rstrip("/")
RStripSlash(s) ==
    LET keep == {i \in 1..Len(s) : s[i] # "/"}
    IN  IF keep = {} THEN <<>> ELSE SubSeq(s, 1, Max(keep))

\* the offsets where r'/(tree|blob)/.*$' matches: the marker stands there and
\* no newline follows it, but for one that ends the text
TreeBlobAt(s) ==
    {i \in 0..Len(s) :
        /\ StartsWithAt(s, TreeDir, i) \/ StartsWithAt(s, BlobDir, i)
        /\ \A j \in (i + Len(TreeDir))..(Len(s) - 1) : At(s, j) = NL => j = Len(s) - 1}

\* line 71: re.sub(r'/(tree|blob)/.*$', '', url)
DropTreeBlob(s) ==
    IF TreeBlobAt(s) = {} THEN s
    ELSE Slice(s, 0, Min(TreeBlobAt(s)))
         \o (IF At(s, Len(s) - 1) = NL /\ Min(TreeBlobAt(s)) + Len(TreeDir) < Len(s)
             THEN <<NL>> ELSE <<>>)

\* lines 66-67
DropDotGit(s) == IF EndsWith(s, DotGit) THEN Slice(s, 0, Len(s) - 4) ELSE s

\* lines 57-73
CleanGithubUrl(u) == DropTreeBlob(RStripSlash(DropDotGit(Strip(u))))

\* [A-Za-z0-9_.-] of GITHUB_URL_PATTERN
UrlChar == Lower \cup Upper \cup Digits \cup {"_", ".", "-"}

GithubPrefix ==
    <<"h", "t", "t", "p", "s", ":", "/", "/",
      "g", "i", "t", "h", "u", "b", ".", "c", "o", "m", "/">>

\* is_valid_github_url accepting every text
IsValidGithubUrl_Any(u) == TRUE

\* lines 53-55 and 75-77: GITHUB_URL_PATTERN.match(url); '$' also matches
\* before a newline that ends the text, and '/?' takes one closing slash
IsValidGithubUrl(u) ==
    /\ StartsWithAt(u, GithubPrefix, 0)
    /\ LET rest == Slice(u, Len(GithubPrefix), Len(u))
           line == IF EndsWith(rest, <<NL>>) THEN Slice(rest, 0, Len(rest) - 1) ELSE rest
           path == IF EndsWith(line, <<"/">>) THEN Slice(line, 0, Len(line) - 1) ELSE line
           slashes == {i \in 1..Len(path) : path[i] = "/"}
       IN  /\ Cardinality(slashes) = 1
           /\ \A i \in slashes : 1 < i /\ i < Len(path)
           /\ \A i \in 1..Len(path) : path[i] \in UrlChar \cup {"/"}

\* lines 89-97: the last two parts of repo_link.rstrip("/").split("/")
ExtractOwnerAndRepo(repo_link) ==
    LET link == RStripSlash(repo_link)
        slashes == {i \in 1..Len(link) : link[i] = "/"}
        last == Max(slashes)
        before == {i \in slashes : i < last}
        from == IF before = {} THEN 1 ELSE Max(before) + 1
    IN  IF slashes = {} THEN [ok |-> FALSE, owner |-> <<>>, repo |-> <<>>]
        ELSE [ok |-> TRUE,
              owner |-> SubSeq(link, from, last - 1),
              repo |-> SubSeq(link, last + 1, Len(link))]

(***************************************************************************)
(* The pipeline stages of utils.py                                         *)
(***************************************************************************)
ValidMarker == <<"V", "A", "L", "I", "D", ":">>
InvalidMarker == <<"I", "N">> \o ValidMarker

\* the fixed parts of the two rejection reasons of lines 194 and 205
Misaligned == "Project rejected: The project claims don't align with the codebase implementation. "
NoDetermination == "Project rejected: The validator response did not contain a clear VALID or INVALID determination."

\* validate_project_alignment accepting a text that holds no marker
ValidateProjectAlignment_Lenient(content) ==
    IF Find(Strip(content), InvalidMarker) # -1
    THEN [vrejected |-> TRUE,
          rejection_reason |-> <<Misaligned>>,
          validation_summary |-> <<>>]
    ELSE [vrejected |-> FALSE,
          rejection_reason |-> <<>>,
          validation_summary |-> Strip(content)]

\* str.split(marker, 1)[1].strip()
AfterFirst(s, marker) == Strip(Slice(s, Find(s, marker) + Len(marker), Len(s)))

\* lines 188-206: the verdict read from the validator's output
ValidateProjectAlignment(content) ==
    LET validation_result == Strip(content)
    IN  IF Find(validation_result, InvalidMarker) # -1
        THEN [vrejected |-> TRUE,
              rejection_reason |-> <<Misaligned>> \o AfterFirst(validation_result, InvalidMarker),
              validation_summary |-> <<>>]
        ELSE IF Find(validation_result, ValidMarker) # -1
        THEN [vrejected |-> FALSE,
              rejection_reason |-> <<>>,
              validation_summary |-> AfterFirst(validation_result, ValidMarker)]
        ELSE [vrejected |-> TRUE,
              rejection_reason |-> <<NoDetermination>>,
              validation_summary |-> <<>>]

\* the Extractor's ValueError, the message left out
ExtractFails == [ok |-> FALSE, val |-> NoVal]

\* line 313: json.loads of what fix_malformed_json returned, the failure of
\* line 312 passed on
LoadFixed(fixed_json) ==
    IF fixed_json.ok THEN [ok |-> TRUE, val |-> JsonLoads(fixed_json.text).val]
    ELSE ExtractFails

\* lines 286-313: the window is cut, repaired and loaded
ExtractFromWindow(window) ==
    IF window.ok THEN LoadFixed(FixMalformedJson(window.text)) ELSE ExtractFails

\* lines 281-284: the whole response is tried first
WholeOrWindow(r, whole) ==
    IF whole.ok THEN [ok |-> TRUE, val |-> whole.val]
    ELSE ExtractFromWindow(Window(r))

\* lines 274-318 as one function: the parsed value, or the ValueError
ExtractJson(r) == WholeOrWindow(r, JsonLoads(r))

\* lines 223 and 235: generate_initial_report and review_report return the
\* model's text as it is ("raw content without JSON validation")
RawContent(content) == [ok |-> TRUE, val |-> Str(content), extracted |-> FALSE]

\* the ValueError of line 272
ReviseFails == [ok |-> FALSE, val |-> NoVal, extracted |-> TRUE]

\* line 268: json.loads of the repaired text
ReloadFixed(fixed_json) ==
    IF fixed_json.ok
    THEN [ok |-> TRUE, val |-> JsonLoads(fixed_json.text).val, extracted |-> TRUE]
    ELSE ReviseFails

\* lines 266-269: a str is repaired and loaded, anything else returned as it is
FinalOf(json_content) ==
    IF ~json_content.ok THEN ReviseFails
    ELSE IF json_content.val.t = "str"
    THEN ReloadFixed(FixMalformedJson(json_content.val.v))
    ELSE [ok |-> TRUE, val |-> json_content.val, extracted |-> TRUE]

\* revise_report returning an empty report when the extraction fails
DefaultOf(json_content) ==
    IF ~json_content.ok THEN [ok |-> TRUE, val |-> Obj(<<>>), extracted |-> TRUE]
    ELSE [ok |-> TRUE, val |-> json_content.val, extracted |-> TRUE]

ParsedFinal_Default(content) == DefaultOf(ExtractJson(content))

\* revise_report returning the model's text as it is
ParsedFinal_Raw(content) == [ok |-> TRUE, val |-> Str(content), extracted |-> FALSE]

\* lines 261-272: what revise_report makes of the model's text: the parsed
\* value it returns, or the ValueError it raises; the text went through
\* extract_json_from_llm_response
ParsedFinal(content) == FinalOf(ExtractJson(content))

(***************************************************************************)
(* analyze_repository (controller.py) and what it is run with.  Python     *)
(* values are the tagged values of the JSON section: Str(x) is a string,   *)
(* None the value None, NoVal a local that is not bound yet.  Strings the  *)
(* code only passes along are one token long.                              *)
(***************************************************************************)
None == Lit(Chars_null)

\* Python truthiness of a value
Truthy(x) ==
    CASE x.t = "none" -> FALSE
      [] x.t = "lit" -> x.v = Chars_true
      [] x.t = "num" -> x.v \notin {<<"0">>, <<"-", "0">>, <<"0", ".", "0">>}
      [] x.t = "obj" -> DOMAIN x.v # {}
      [] OTHER -> x.v # <<>>

\* the requests in flight
Reqs == {"r1", "r2"}

RequestSet ==
    { [github_repo |-> GithubPrefix \o <<"o", "/", "r">>,
       github_project_name |-> Str(<<"alpha">>), eval_criteria |-> Str(<<"criteria">>),
       skills |-> Str(<<"skills">>), career_path |-> None],
      [github_repo |-> GithubPrefix \o <<"o", "/", "q", "/", "t", "r", "e", "e", "/", "m">>,
       github_project_name |-> Str(<<"beta">>), eval_criteria |-> Str(<<"criteria">>),
       skills |-> Str(<<"skills">>), career_path |-> Str(<<"Data Scientist">>)],
      [github_repo |-> <<"o">>,
       github_project_name |-> Str(<<"gamma">>), eval_criteria |-> Str(<<"criteria">>),
       skills |-> Str(<<"skills">>), career_path |-> None],
      [github_repo |-> GithubPrefix \o <<"o", "/">>,
       github_project_name |-> Str(<<"delta">>), eval_criteria |-> Str(<<"criteria">>),
       skills |-> Str(<<"skills">>), career_path |-> Str(<<"Data Scientist">>)] }

NoRequest ==
    [github_repo |-> <<>>, github_project_name |-> NoVal, eval_criteria |-> NoVal,
     skills |-> NoVal, career_path |-> NoVal]

\* the collaborator calls of analyze_repository, in the order of the code
Stages ==
    <<"repo_exists", "extract_repo_content", "validate_project_alignment",
      "generate_career_specific_insights", "generate_initial_report",
      "review_report", "revise_report">>

\* the parameter names of the def lines
Params(fn) ==
    CASE fn = "repo_exists" -> <<"github_url", "token">>
      [] fn = "extract_repo_content" -> <<"owner", "repo">>
      [] fn = "validate_project_alignment" ->
           <<"github_project_name", "eval_criteria", "skills", "codebase", "career_path">>
      [] fn = "generate_career_specific_insights" ->
           <<"github_project_name", "github_repo_link", "codebase", "career_path",
             "skills_to_be_assessed">>
      [] fn = "generate_initial_report" ->
           <<"github_repo_link", "github_project_name", "evaluation_criterias",
             "skills_to_be_assessed", "full_context", "career_path">>
      [] fn = "review_report" ->
           <<"github_repo_link", "github_project_name", "evaluation_criterias",
             "skills_to_be_assessed", "full_context", "report", "career_path">>
      [] fn = "revise_report" ->
           <<"github_repo_link", "github_project_name", "evaluation_criterias",
             "skills_to_be_assessed", "full_context", "prior_report", "report_feedback",
             "career_path">>

GITHUB_TOKEN == Str(<<"token">>)

\* the positional arguments of the call sites, from the request rq and the
\* locals fr of the running call
Actuals(fn, rq, fr) ==
    CASE fn = "repo_exists" -> <<fr.github_repo_clean, GITHUB_TOKEN>>
      [] fn = "extract_repo_content" ->
           <<Str(ExtractOwnerAndRepo(fr.github_repo_clean.v).owner),
             Str(ExtractOwnerAndRepo(fr.github_repo_clean.v).repo)>>
      [] fn = "validate_project_alignment" ->
           <<rq.github_project_name, rq.eval_criteria, rq.skills, fr.codebase, rq.career_path>>
      [] fn = "generate_career_specific_insights" ->
           <<rq.github_project_name, fr.github_repo_clean, fr.codebase, rq.career_path,
             rq.skills>>
      [] fn = "generate_initial_report" ->
           <<fr.github_repo_clean, rq.github_project_name, rq.eval_criteria, rq.skills,
             fr.codebase, rq.career_path>>
      [] fn = "review_report" ->
           <<fr.github_repo_clean, rq.eval_criteria, rq.skills, fr.codebase,
             fr.initial_report, rq.career_path>>
      [] fn = "revise_report" ->
           <<fr.github_repo_clean, rq.github_project_name, rq.eval_criteria, rq.skills,
             fr.codebase, fr.initial_report, fr.review_result, rq.career_path>>

\* Python's binding of positional arguments: the i-th argument goes to the
\* i-th parameter, and a parameter left over takes its default, None
Bind(params, actuals) ==
    [p \in {params[i] : i \in 1..Len(params)} |->
        LET i == CHOOSE j \in 1..Len(params) : params[j] = p
        IN  IF i <= Len(actuals) THEN actuals[i] ELSE None]

\* the arguments a stage is called with
Args(fn, rq, fr) == Bind(Params(fn), Actuals(fn, rq, fr))

\* dictionary keys of the final report
K_report == <<"r", "e", "p", "o", "r", "t">>
K_career_analysis == <<"c", "a", "r", "e", "e", "r", "_", "a", "n", "a", "l", "y", "s", "i", "s">>
K_additional_insights == <<"a", "d", "d", "i", "t", "i", "o", "n", "a", "l", "_", "i", "n", "s", "i", "g", "h", "t", "s">>
K_career_metrics == <<"c", "a", "r", "e", "e", "r", "_", "m", "e", "t", "r", "i", "c", "s">>
K_target_career == <<"t", "a", "r", "g", "e", "t", "_", "c", "a", "r", "e", "e", "r">>
K_project_summary == <<"p", "r", "o", "j", "e", "c", "t", "_", "s", "u", "m", "m", "a", "r", "y">>
K_tech_stack == <<"t", "e", "c", "h", "_", "s", "t", "a", "c", "k">>
K_career_validation == <<"c", "a", "r", "e", "e", "r", "_", "v", "a", "l", "i", "d", "a", "t", "i", "o", "n">>

IsDict(x) == x.t = "obj"
HasKey(x, k) == IsDict(x) /\ k \in DOMAIN x.v

\* can report.career_analysis take items: "report" is a key of the mapping d,
\* its value is a mapping, and career_analysis is absent from it or a mapping
TakesCareerItems(d) ==
    /\ HasKey(d, K_report)
    /\ IsDict(d.v[K_report])
    /\ HasKey(d.v[K_report], K_career_analysis) => IsDict(d.v[K_report].v[K_career_analysis])

\* d["report"]["career_analysis"][k] = x for each k -> x of items, the
\* career_analysis mapping being created when it is absent
WithCareerItems(d, items) ==
    LET report == d.v[K_report]
        had == IF HasKey(report, K_career_analysis)
               THEN report.v[K_career_analysis].v ELSE <<>>
        now == [k \in DOMAIN had \cup DOMAIN items |->
                   IF k \in DOMAIN items THEN items[k] ELSE had[k]]
    IN  Obj(Put(d.v, K_report, Obj(Put(report.v, K_career_analysis, Obj(now)))))

\* lines 140-148 with utils.py 427-440: the insights are added under
\* report.career_analysis; every other case leaves the report as it was
\* (the early return of line 432, or the exception swallowed at line 147)
Enhanced(final_report_dict, additional_career_insights) ==
    IF /\ Truthy(additional_career_insights)
       /\ Truthy(final_report_dict)
       /\ TakesCareerItems(final_report_dict)
    THEN WithCareerItems(final_report_dict,
                         K_additional_insights :> additional_career_insights)
    ELSE final_report_dict

\* utils.py 442-492 and 391-425: their results are passed along unread
CareerMetrics == Str(<<"career_metrics">>)
CareerValidation == Str(<<"career_validation">>)

\* line 151: '"report" in final_report_dict' raises TypeError when the
\* report is a number or a boolean; the test is outside the inner try
MetadataTestRaises(final_report_dict, career_path) ==
    /\ Truthy(career_path)
    /\ Truthy(final_report_dict)
    /\ final_report_dict.t \in {"num", "lit"}

\* lines 154 and 470: report.project_summary.tech_stack can be read and its
\* elements lowered: each level is absent or a mapping, the stack a list of
\* strings, a string or a mapping
TechStackReadable(report) ==
    HasKey(report, K_project_summary) =>
        /\ IsDict(report.v[K_project_summary])
        /\ HasKey(report.v[K_project_summary], K_tech_stack) =>
              LET tech_stack == report.v[K_project_summary].v[K_tech_stack]
              IN  \/ tech_stack.t \in {"str", "obj"}
                  \/ /\ tech_stack.t = "arr"
                     /\ \A i \in 1..Len(tech_stack.v) : tech_stack.v[i].t = "str"

\* lines 151-175: the career metadata is added under report.career_analysis;
\* an exception inside the try leaves the report as it was
WithCareerMetadata(final_report_dict, career_path) ==
    IF /\ Truthy(career_path)
       /\ Truthy(final_report_dict)
       /\ TakesCareerItems(final_report_dict)
       /\ TechStackReadable(final_report_dict.v[K_report])
    THEN WithCareerItems(final_report_dict,
                         (K_career_metrics :> CareerMetrics)
                         @@ (K_target_career :> career_path)
                         @@ (K_career_validation :> CareerValidation))
    ELSE final_report_dict

(***************************************************************************)
(* The state of one call.                                                  *)
(*   pc        where the call stands                                       *)
(*   fn        the function the caller invoked: "extract" or "fix"         *)
(*   given     the case the caller built its argument from                 *)
(*   response  the argument of extract_json_from_llm_response              *)
(*   json_str  the argument of fix_malformed_json                          *)
(*   fixed     the local of fix_malformed_json                             *)
(*   fix_ret   what fix_malformed_json returned or raised                  *)
(*   invoked   the steps that ran (pass-invocation instrumentation)        *)
(*   ret       what the caller got back                                    *)
(***************************************************************************)
VARIABLES pc, fn, given, response, json_str, fixed, fix_ret, invoked, ret

vars == <<pc, fn, given, response, json_str, fixed, fix_ret, invoked, ret>>

NoRet == [kind |-> "none", val |-> NoVal, text |-> <<>>, err |-> "", preview |-> <<>>]
RetValue(x) == [kind |-> "value", val |-> x, text |-> <<>>, err |-> "", preview |-> <<>>]
RetText(x) == [kind |-> "text", val |-> NoVal, text |-> x, err |-> "", preview |-> <<>>]
RetError(e, p) == [kind |-> "error", val |-> NoVal, text |-> <<>>, err |-> e, preview |-> p]

NoFixRet == [done |-> FALSE, ok |-> FALSE, text |-> <<>>]
FixReturned(x) == [done |-> TRUE, ok |-> TRUE, text |-> x]
FixRaised == [done |-> TRUE, ok |-> FALSE, text |-> <<>>]

CouldNotFix == "Could not fix malformed JSON"

CoreIdle ==
    /\ pc = "idle"
    /\ fn = "none"
    /\ given = NoCase
    /\ response = <<>>
    /\ json_str = <<>>
    /\ fixed = <<>>
    /\ fix_ret = NoFixRet
    /\ invoked = {}
    /\ ret = NoRet

\* a caller passes a model output to extract_json_from_llm_response
CallExtract ==
    /\ pc = "idle"
    /\ \E c \in ExtractCases :
        /\ given' = c
        /\ response' = c.text
    /\ fn' = "extract"
    /\ pc' = "extract_try"
    /\ UNCHANGED <<json_str, fixed, fix_ret, invoked, ret>>

\* the extractor without its fast path
WholeParse_Skipped(r) == Fail

\* lines 281-284: json.loads(response)
WholeParse(r) == JsonLoads(r)

\* lines 279-284: the whole response is tried first
ExtractTryParse ==
    /\ pc = "extract_try"
    /\ invoked' = invoked \cup {"json.loads"}
    /\ IF WholeParse(response).ok
       THEN /\ ret' = RetValue(WholeParse(response).val)
            /\ pc' = "done"
       ELSE /\ ret' = ret
            /\ pc' = "extract_window"
    /\ UNCHANGED <<fn, given, response, json_str, fixed, fix_ret>>

\* lines 286-312: the window is searched and handed to fix_malformed_json;
\* lines 315-318: a ValueError raised by the search is re-raised with a preview
ExtractWindow ==
    /\ pc = "extract_window"
    /\ invoked' = invoked \cup {"find"}
    /\ IF Window(response).ok
       THEN /\ json_str' = Window(response).text
            /\ pc' = "fix_try"
            /\ ret' = ret
       ELSE /\ json_str' = json_str
            /\ pc' = "done"
            /\ ret' = RetError(Window(response).err, Preview(response))
    /\ UNCHANGED <<fn, given, response, fixed, fix_ret>>

\* a caller passes a text to fix_malformed_json
CallFix ==
    /\ pc = "idle"
    /\ \E c \in FixCases :
        /\ given' = c
        /\ json_str' = c.text
    /\ fn' = "fix"
    /\ pc' = "fix_try"
    /\ UNCHANGED <<response, fixed, fix_ret, invoked, ret>>

\* the fast path returning the trimmed text
FastPathText_Stripped(s) == Strip(s)

\* line 328: the text returned on the fast path
FastPathText(s) == s

\* lines 325-330: parse as-is; return the text, or enter the except branch
FixTryParse ==
    /\ pc = "fix_try"
    /\ invoked' = invoked \cup {"fix_malformed_json"}
    /\ IF JsonLoads(json_str).ok
       THEN /\ fix_ret' = FixReturned(FastPathText(json_str))
            /\ fixed' = fixed
            /\ pc' = "fix_return"
       ELSE /\ fix_ret' = fix_ret
            /\ fixed' = json_str
            /\ pc' = "fix_repair"
    /\ UNCHANGED <<fn, given, response, json_str, ret>>

\* lines 332-356: the passes, in order
FixRepair ==
    /\ pc = "fix_repair"
    /\ invoked' = invoked \cup {"passes"}
    /\ fixed' = Repaired(fixed)
    /\ pc' = "fix_verify"
    /\ UNCHANGED <<fn, given, response, json_str, fix_ret, ret>>

\* the except branch returning the repaired text without the final parse
Verified_Unchecked(s) == [done |-> TRUE, ok |-> TRUE, text |-> s]

\* lines 358-365: the outcome of the except branch for the repaired text
Verified(s) == IF JsonLoads(s).ok THEN FixReturned(s) ELSE FixRaised

\* lines 358-365: the repaired text is parsed; it is returned or ValueError is raised
FixVerify ==
    /\ pc = "fix_verify"
    /\ fix_ret' = Verified(fixed)
    /\ pc' = "fix_return"
    /\ UNCHANGED <<fn, given, response, json_str, fixed, invoked, ret>>

\* fix_malformed_json hands its outcome to the caller that invoked it directly
FixReturn ==
    /\ pc = "fix_return"
    /\ fn = "fix"
    /\ ret' = IF fix_ret.ok THEN RetText(fix_ret.text) ELSE RetError(CouldNotFix, <<>>)
    /\ pc' = "done"
    /\ UNCHANGED <<fn, given, response, json_str, fixed, fix_ret, invoked>>

\* lines 312-318: json.loads of the fixed text; any error is re-raised with a preview
ExtractLoadFixed ==
    /\ pc = "fix_return"
    /\ fn = "extract"
    /\ ret' = IF ~fix_ret.ok THEN RetError(CouldNotFix, Preview(response))
              ELSE IF JsonLoads(fix_ret.text).ok
                   THEN RetValue(JsonLoads(fix_ret.text).val)
                   ELSE RetError("JSONDecodeError", Preview(response))
    /\ pc' = "done"
    /\ UNCHANGED <<fn, given, response, json_str, fixed, fix_ret, invoked>>

(***************************************************************************)
(* The state of analyze_repository, one entry per request in flight.       *)
(*   at      where the request stands: "idle", "check_url", the stage it   *)
(*           calls next or waits for, "respond", "done"                    *)
(*   req     the arguments of the call                                     *)
(*   frame   the locals of the call                                        *)
(*   calls   what passed between the call and its collaborators, in order: *)
(*           call (with the arguments), answer (the model's text),         *)
(*           extract (the text handed to extract_json_from_llm_response),  *)
(*           ret (the value returned), raise                               *)
(*   result  the mapping the call returned                                 *)
(***************************************************************************)
VARIABLES at, req, frame, calls, result

pvars == <<at, req, frame, calls, result>>

NoFrame ==
    [github_repo_clean |-> NoVal, codebase |-> NoVal, validation_result |-> NoVal,
     additional_career_insights |-> NoVal, initial_report |-> NoVal,
     review_result |-> NoVal, final_report_dict |-> NoVal]

NoResult == [status |-> "none", data |-> NoVal, message |-> <<>>]

PipelineIdle ==
    /\ at = [r \in Reqs |-> "idle"]
    /\ req = [r \in Reqs |-> NoRequest]
    /\ frame = [r \in Reqs |-> NoFrame]
    /\ calls = [r \in Reqs |-> <<>>]
    /\ result = [r \in Reqs |-> NoResult]

Event(op, stage, x) == [op |-> op, fn |-> stage, x |-> x]

StageSet == {Stages[i] : i \in 1..Len(Stages)}

\* the request has called a collaborator that has not returned
Pending(r) == calls[r] # <<>> /\ calls[r][Len(calls[r])].op = "call"

\* the three shapes of the returned mapping
Rejected(reason, message) ==
    [status |-> "rejected", data |-> [rejection_reason |-> reason], message |-> <<message>>]
\* Failed letting the exception leave analyze_repository
Failed_Propagates(e) ==
    [status |-> "raised", data |-> [error |-> e], message |-> e.v]

Failed(e) ==
    [status |-> "error", data |-> [error |-> e],
     message |-> <<"Error analyzing repository: ">> \o e.v]
Succeeded(final_report_dict, career_path) ==
    [status |-> "success", data |-> [final_report |-> final_report_dict],
     message |-> IF Truthy(career_path)
                 THEN <<"Repository analysis completed successfully with career-oriented insights for ">>
                      \o career_path.v
                 ELSE <<"Repository analysis completed successfully">>]

\* what the collaborators can answer
CollaboratorError == Str(<<"collaborator error">>)
ReportValidationFailed == Str(<<"Final report validation failed: ">>)
NotIterable == Str(<<"argument of type 'int' is not iterable">>)

FetchRejections ==
    { Str(<<"Project rejected: Could not access repository. ">>),
      Str(<<"Project rejected: owner/repo is a private repo">>),
      Str(<<"Project rejected: No README file was found in the repository. Please add a README and resubmit.">>),
      Str(<<"Project rejected: README file exists but is empty or uninformative. Please provide a meaningful description of your project.">>) }

\* lines 149-176 of utils.py: the structure and the contents of owner/repo
CodebaseOf(owner, repo) ==
    Str(<<"Repository Structure:">> \o owner.v \o <<"/">> \o repo.v \o <<"Repository Contents:">>)

ValidatorOutputs ==
    { <<"V", "A", "L", "I", "D", ":", " ", "o", "k">>,
      <<" ", "I", "N", "V", "A", "L", "I", "D", ":", " ", "o", "f", "f", " ">>,
      <<"V", "A", "L", "I", "D", ":", " ", "n", "o", " ", "I", "N", "V", "A", "L", "I", "D", ":", " ", "i", "n", "p", "u", "t", " ", "l", "e", "f", "t">>,
      <<"u", "n", "c", "l", "e", "a", "r">>,
      <<"v", "a", "l", "i", "d", ":", " ", "o", "k">>,
      <<>> }

\* the notes that stand for the insights when the call fails: the model call
\* raising (utils.py 387-389) and the function itself raising (lines 102-104)
InsightsFailureNotes ==
    { Str(<<"Career insights generation failed: ">> \o CollaboratorError.v),
      Str(<<"Note: Additional career insights generation failed: ">> \o CollaboratorError.v) }

InsightsOutputs == { Str(<<"insights">>) } \cup InsightsFailureNotes

GenerateOutputs == { FenceJson \o <<NL>> \o <<"{", DQ, "r", "e", "p", "o", "r", "t", DQ, ":", " ", "{", "}", "}">> \o <<NL>> \o Fence }

ReviewOutputs == { <<"L", "o", "o", "k", "s", " ", "f", "i", "n", "e", ".">> }

ReviseOutputs ==
    { Fenced(<<"S", "e", "e", ":">>, <<"{", DQ, "r", "e", "p", "o", "r", "t", DQ, ":", " ", "{", "}", "}">>, <<"E", "n", "d", ".">>),
      <<"{", DQ, "a", DQ, ":", " ", "1", "}">>,
      <<"n", "u", "l", "l">>,
      <<"5">>,
      <<DQ, "5", DQ>>,
      <<DQ, "x", DQ>>,
      <<"s", "o", "r", "r", "y">>,
      <<"{", "r", "e", "p", "o", "r", "t", ":", " ", "{", "}", "}">> }

\* Visible reading the locals of another request
Visible_Shared(fr, r) == fr[CHOOSE q \in Reqs : q # r]

\* the locals a running call reads: request r's own
Visible(fr, r) == fr[r]

\* NextStage with the review left out: the revision follows the first report
NextStage_SkipReview(stage, rq) ==
    CASE stage = "repo_exists" -> "extract_repo_content"
      [] stage = "extract_repo_content" -> "validate_project_alignment"
      [] stage = "validate_project_alignment" ->
           IF Truthy(rq.career_path) THEN "generate_career_specific_insights"
           ELSE "generate_initial_report"
      [] stage = "generate_career_specific_insights" -> "generate_initial_report"
      [] stage = "generate_initial_report" -> "revise_report"
      [] stage = "review_report" -> "revise_report"
      [] stage = "revise_report" -> "respond"

\* the stage that follows a stage in the code
NextStage(stage, rq) ==
    CASE stage = "repo_exists" -> "extract_repo_content"
      [] stage = "extract_repo_content" -> "validate_project_alignment"
      [] stage = "validate_project_alignment" ->
           IF Truthy(rq.career_path) THEN "generate_career_specific_insights"
           ELSE "generate_initial_report"
      [] stage = "generate_career_specific_insights" -> "generate_initial_report"
      [] stage = "generate_initial_report" -> "review_report"
      [] stage = "review_report" -> "revise_report"
      [] stage = "revise_report" -> "respond"

\* OnFailure sending the request back to the stage that failed
OnFailure_Retry(stage) == stage

\* lines 191-197: an exception of a stage ends the call
OnFailure(stage) == "done"

\* AfterRejection going on with the next stage
AfterRejection_Continue(stage, rq) == NextStage(stage, rq)

\* lines 50-54, 63-69 and 82-88: a rejection is returned at once
AfterRejection(stage, rq) == "done"

\* the route handler calls analyze_repository (routes.py 62-68)
Receive(r) ==
    /\ at[r] = "idle"
    /\ \E rq \in RequestSet : req' = [req EXCEPT ![r] = rq]
    /\ at' = [at EXCEPT ![r] = "check_url"]
    /\ UNCHANGED <<frame, calls, result>>

\* lines 26-45: the URL is cleaned and its format checked
CheckUrl(r) ==
    /\ at[r] = "check_url"
    /\ LET github_repo_clean == CleanGithubUrl(req[r].github_repo)
       IN  /\ frame' = [frame EXCEPT ![r].github_repo_clean = Str(github_repo_clean)]
           /\ IF IsValidGithubUrl(github_repo_clean)
              THEN /\ at' = [at EXCEPT ![r] = "repo_exists"]
                   /\ result' = result
              ELSE /\ at' = [at EXCEPT ![r] = "done"]
                   /\ result' = [result EXCEPT ![r] =
                         Rejected(Str(<<"Invalid GitHub URL. Please provide a repository URL like https://github.com/username/repo">>),
                                  "Repository analysis was rejected due to invalid URL")]
    /\ UNCHANGED <<req, calls>>

\* the call sites of lines 48, 61, 74, 95, 108, 118 and 128: the stage the
\* request stands at is called with its arguments and blocks the caller
Invoke(r) ==
    /\ at[r] \in StageSet
    /\ ~Pending(r)
    /\ calls' = [calls EXCEPT ![r] =
                    Append(@, Event("call", at[r], Args(at[r], req[r], Visible(frame, r))))]
    /\ UNCHANGED <<at, req, frame, result>>

\* a collaborator raises; generate_career_specific_insights catches its own
\* (utils.py 384-389), every other exception reaches lines 191-197
StageRaises(r) ==
    /\ at[r] \in StageSet \ {"generate_career_specific_insights"}
    /\ Pending(r)
    /\ calls' = [calls EXCEPT ![r] = Append(@, Event("raise", at[r], CollaboratorError))]
    /\ at' = [at EXCEPT ![r] = OnFailure(at[r])]
    /\ result' = IF OnFailure(at[r]) = "done"
                 THEN [result EXCEPT ![r] = Failed(CollaboratorError)]
                 ELSE result
    /\ UNCHANGED <<req, frame>>

\* lines 48-54: repo_exists answers
RepoExistsReturns(r) ==
    /\ at[r] = "repo_exists"
    /\ Pending(r)
    /\ \E found \in BOOLEAN :
        /\ calls' = [calls EXCEPT ![r] =
                        Append(@, Event("ret", at[r], Lit(IF found THEN Chars_true ELSE Chars_false)))]
        /\ IF found
           THEN /\ at' = [at EXCEPT ![r] = NextStage(at[r], req[r])]
                /\ result' = result
           ELSE /\ at' = [at EXCEPT ![r] = AfterRejection(at[r], req[r])]
                /\ result' = [result EXCEPT ![r] =
                      Rejected(Str(<<"Repository not found or private. Please check the GitHub URL or token permissions.">>),
                               "Repository analysis was rejected due to inaccessible repository")]
    /\ UNCHANGED <<req, frame>>

\* lines 61-71: extract_repo_content answers with the codebase or a rejection
ExtractRepoContentReturns(r) ==
    /\ at[r] = "extract_repo_content"
    /\ Pending(r)
    /\ LET args == calls[r][Len(calls[r])].x
       IN  \/ /\ calls' = [calls EXCEPT ![r] =
                     Append(@, Event("ret", at[r], CodebaseOf(args.owner, args.repo)))]
              /\ frame' = [frame EXCEPT ![r].codebase = CodebaseOf(args.owner, args.repo)]
              /\ at' = [at EXCEPT ![r] = NextStage(at[r], req[r])]
              /\ result' = result
           \/ \E reason \in FetchRejections :
              /\ calls' = [calls EXCEPT ![r] = Append(@, Event("ret", at[r], reason))]
              /\ frame' = frame
              /\ at' = [at EXCEPT ![r] = AfterRejection(at[r], req[r])]
              /\ result' = [result EXCEPT ![r] =
                    Rejected(reason, "Repository analysis was rejected")]
    /\ UNCHANGED req

\* lines 74-91 with utils.py 188-206: the validator's text is read
ValidateReturns(r) ==
    /\ at[r] = "validate_project_alignment"
    /\ Pending(r)
    /\ \E content \in ValidatorOutputs :
        LET validation_result == ValidateProjectAlignment(content)
        IN  /\ calls' = [calls EXCEPT ![r] =
                    @ \o <<Event("answer", at[r], Str(content)),
                           Event("ret", at[r], validation_result)>>]
            /\ IF validation_result.vrejected
               THEN /\ frame' = [frame EXCEPT ![r].validation_result = validation_result]
                    /\ at' = [at EXCEPT ![r] = AfterRejection(at[r], req[r])]
                    /\ result' = [result EXCEPT ![r] =
                          Rejected(Str(validation_result.rejection_reason),
                                   "Repository validation failed")]
               ELSE /\ frame' = [frame EXCEPT ![r].validation_result = validation_result,
                                              ![r].additional_career_insights = None]
                    /\ at' = [at EXCEPT ![r] = NextStage(at[r], req[r])]
                    /\ result' = result
    /\ UNCHANGED req

\* lines 92-105 with utils.py 384-389: the insights, or the failure note
InsightsReturns(r) ==
    /\ at[r] = "generate_career_specific_insights"
    /\ Pending(r)
    /\ \E career_insights \in InsightsOutputs :
        /\ calls' = [calls EXCEPT ![r] = Append(@, Event("ret", at[r], career_insights))]
        /\ frame' = [frame EXCEPT ![r].additional_career_insights = career_insights]
    /\ at' = [at EXCEPT ![r] = NextStage(at[r], req[r])]
    /\ UNCHANGED <<req, result>>

\* what a report stage appends to calls, given what it makes of the text
StageEvents(stage, content, made) ==
    <<Event("answer", stage, Str(content))>>
    \o (IF made.extracted THEN <<Event("extract", stage, Str(content))>> ELSE <<>>)
    \o (IF made.ok THEN <<Event("ret", stage, made.val)>>
        ELSE <<Event("raise", stage, ReportValidationFailed)>>)

\* lines 108-115 with utils.py 222-223
GenerateReturns(r) ==
    /\ at[r] = "generate_initial_report"
    /\ Pending(r)
    /\ \E content \in GenerateOutputs :
        /\ calls' = [calls EXCEPT ![r] = @ \o StageEvents(at[r], content, RawContent(content))]
        /\ frame' = [frame EXCEPT ![r].initial_report = RawContent(content).val]
    /\ at' = [at EXCEPT ![r] = NextStage(at[r], req[r])]
    /\ UNCHANGED <<req, result>>

\* lines 118-125 with utils.py 234-235
ReviewReturns(r) ==
    /\ at[r] = "review_report"
    /\ Pending(r)
    /\ \E content \in ReviewOutputs :
        /\ calls' = [calls EXCEPT ![r] = @ \o StageEvents(at[r], content, RawContent(content))]
        /\ frame' = [frame EXCEPT ![r].review_result = RawContent(content).val]
    /\ at' = [at EXCEPT ![r] = NextStage(at[r], req[r])]
    /\ UNCHANGED <<req, result>>

\* lines 128-137 with utils.py 259-272: the model's text is parsed, or the
\* ValueError reaches lines 191-197
ReviseReturns(r) ==
    /\ at[r] = "revise_report"
    /\ Pending(r)
    /\ \E content \in ReviseOutputs : \E made \in {ParsedFinal(content)} :
            /\ calls' = [calls EXCEPT ![r] = @ \o StageEvents(at[r], content, made)]
            /\ IF made.ok
               THEN /\ frame' = [frame EXCEPT ![r].final_report_dict = made.val]
                    /\ at' = [at EXCEPT ![r] = NextStage(at[r], req[r])]
                    /\ result' = result
               ELSE /\ frame' = frame
                    /\ at' = [at EXCEPT ![r] = OnFailure(at[r])]
                    /\ result' = IF OnFailure(at[r]) = "done"
                                 THEN [result EXCEPT ![r] = Failed(ReportValidationFailed)]
                                 ELSE result
    /\ UNCHANGED req

\* lines 139-197: the report is enhanced and returned
Respond(r) ==
    /\ at[r] = "respond"
    /\ LET enhanced == Enhanced(frame[r].final_report_dict,
                                frame[r].additional_career_insights)
       IN  IF MetadataTestRaises(enhanced, req[r].career_path)
           THEN /\ frame' = [frame EXCEPT ![r].final_report_dict = enhanced]
                /\ result' = [result EXCEPT ![r] = Failed(NotIterable)]
           ELSE /\ frame' = [frame EXCEPT ![r].final_report_dict =
                                 WithCareerMetadata(enhanced, req[r].career_path)]
                /\ result' = [result EXCEPT ![r] =
                      Succeeded(WithCareerMetadata(enhanced, req[r].career_path),
                                req[r].career_path)]
    /\ at' = [at EXCEPT ![r] = "done"]
    /\ UNCHANGED <<req, calls>>

(***************************************************************************)
(* The request handlers of routes.py that validate their request.          *)
(*   endpoint       the path of the request being handled                  *)
(*   body           the request body                                       *)
(*   exc            the exception raised inside the handler's try block    *)
(*   http_response  the answer of the handler: a status code and a body    *)
(*   route_pc       where the handler stands                               *)
(***************************************************************************)
VARIABLES endpoint, body, exc, http_response, route_pc

rvars == <<endpoint, body, exc, http_response, route_pc>>

MaxCareerPaths == 10
MinReports == 2
MaxReports == 5

\* the longest list a request body holds
MaxListLen == 12

Endpoints ==
    {"/analyze/career-focused", "/analyze/multiple-careers", "/career/suggestions",
     "/analyze/compare-reports"}

Items(x, n) == [i \in 1..n |-> x]

\* the request bodies that pass the model validation of the framework
Bodies(e) ==
    CASE e = "/analyze/career-focused" ->
           {[career_path |-> c] : c \in {None, Str(<<>>), Str(<<"Data Scientist">>)}}
      [] e = "/analyze/multiple-careers" ->
           {[career_paths |-> Items(Str(<<"Data Scientist">>), n)] : n \in 0..MaxListLen}
      [] e = "/career/suggestions" ->
           {[project_tech_stack |-> Items(Str(<<"Python">>), m),
             current_skills |-> Items(Str(<<"SQL">>), n)] : m \in 0..1, n \in 0..1}
      [] e = "/analyze/compare-reports" ->
           {[reports |-> Items(Obj(<<>>), n)] : n \in 0..MaxListLen}

NoBody == [none |-> TRUE]
NoException == [class |-> "none", status_code |-> 0]
HTTPException(status_code) == [class |-> "HTTPException", status_code |-> status_code]
OtherException == [class |-> "Exception", status_code |-> 0]
NoResponse == [status_code |-> 0, status |-> "none"]

\* the request validation the handlers do themselves: lines 88, 116, 144,
\* 150, 351 and 357
RequestInvalid(e, b) ==
    CASE e = "/analyze/career-focused" -> ~Truthy(b.career_path)
      [] e = "/analyze/multiple-careers" ->
           b.career_paths = <<>> \/ Len(b.career_paths) > MaxCareerPaths
      [] e = "/career/suggestions" ->
           b.project_tech_stack = <<>> \/ b.current_skills = <<>>
      [] e = "/analyze/compare-reports" ->
           Len(b.reports) < MinReports \/ Len(b.reports) > MaxReports

\* 'except Exception': the classes the handlers' except clause catches;
\* HTTPException derives from Exception
CaughtByExceptException == {"Exception", "HTTPException"}

RoutesIdle ==
    /\ endpoint = "none"
    /\ body = NoBody
    /\ exc = NoException
    /\ http_response = NoResponse
    /\ route_pc = "idle"

\* a request reaches one of the handlers
RouteReceive ==
    /\ route_pc = "idle"
    /\ \E e \in Endpoints :
        /\ endpoint' = e
        /\ \E b \in Bodies(e) : body' = b
    /\ route_pc' = "validate"
    /\ UNCHANGED <<exc, http_response>>

\* lines 87-92, 115-120, 143-154, 350-361: inside the try block, an invalid
\* request raises HTTPException(status_code=400)
RouteValidate ==
    /\ route_pc = "validate"
    /\ IF RequestInvalid(endpoint, body)
       THEN /\ exc' = HTTPException(400)
            /\ route_pc' = "except"
       ELSE /\ exc' = exc
            /\ route_pc' = "controller"
    /\ UNCHANGED <<endpoint, body, http_response>>

\* lines 94-102, 122-127, 156-164, 363-398: the controller's mapping is
\* returned, or an exception leaves the try block
RouteController ==
    /\ route_pc = "controller"
    /\ \/ /\ \E status \in IF endpoint = "/analyze/compare-reports" THEN {"success"}
                             ELSE {"success", "rejected", "error"} :
               http_response' = [status_code |-> 200, status |-> status]
          /\ exc' = exc
          /\ route_pc' = "done"
       \/ /\ exc' = OtherException
          /\ http_response' = http_response
          /\ route_pc' = "except"
    /\ UNCHANGED <<endpoint, body>>

\* lines 104-105, 129-130, 166-167, 400-401: the except clause answers with
\* HTTPException(status_code=500); an exception it does not catch is answered
\* by the framework with its own status code
RouteExcept ==
    /\ route_pc = "except"
    /\ http_response' =
          IF exc.class \in CaughtByExceptException
          THEN [status_code |-> 500, status |-> "none"]
          ELSE [status_code |-> exc.status_code, status |-> "none"]
    /\ route_pc' = "done"
    /\ UNCHANGED <<endpoint, body, exc>>

(***************************************************************************)
(* clean_github_url, statement by statement.                               *)
(*   url_arg  the argument                                                 *)
(*   url      the local the statements rewrite                             *)
(*   url_pc   the statement that runs next                                 *)
(***************************************************************************)
VARIABLES url_arg, url, url_pc

uvars == <<url_arg, url, url_pc>>

MaxUrlFrags == 3

UrlFrags == { <<"o">>, <<"/">>, <<" ">>, <<NL>>, DotGit, TreeDir, BlobDir }

CleanInputs == FragTexts(UrlFrags, MaxUrlFrags)

CleanIdle ==
    /\ url_arg = <<>>
    /\ url = <<>>
    /\ url_pc = "idle"

\* a caller passes a URL (controller.py 35 and 349, streamlit_app.py 82)
CallCleanGithubUrl ==
    /\ url_pc = "idle"
    /\ \E u \in CleanInputs :
        /\ url_arg' = u
        /\ url' = u
    /\ url_pc' = "strip"

\* line 64
CleanStrip ==
    /\ url_pc = "strip"
    /\ url' = Strip(url)
    /\ url_pc' = "git"
    /\ UNCHANGED url_arg

\* lines 66-67
CleanDropDotGit ==
    /\ url_pc = "git"
    /\ url' = DropDotGit(url)
    /\ url_pc' = "rstrip"
    /\ UNCHANGED url_arg

\* line 68
CleanRStripSlash ==
    /\ url_pc = "rstrip"
    /\ url' = RStripSlash(url)
    /\ url_pc' = "sub"
    /\ UNCHANGED url_arg

\* lines 71-73
CleanDropTreeBlob ==
    /\ url_pc = "sub"
    /\ url' = DropTreeBlob(url)
    /\ url_pc' = "done"
    /\ UNCHANGED url_arg

(***************************************************************************)
(* analyze_repository_career_focus (controller.py 199-250): the wrapper    *)
(* around analyze_repository.                                              *)
(*   focus_career  the career_path argument                                *)
(*   inner_result  what the awaited analyze_repository returned            *)
(*   focus_result  what the wrapper returns                                *)
(*   focus_pc      where the wrapper stands                                *)
(***************************************************************************)
VARIABLES focus_career, inner_result, focus_result, focus_pc

fvars == <<focus_career, inner_result, focus_result, focus_pc>>

K_detailed_alignment == <<"d", "e", "t", "a", "i", "l", "e", "d", "_", "a", "l", "i", "g", "n", "m", "e", "n", "t">>
K_analysis_type == <<"a", "n", "a", "l", "y", "s", "i", "s", "_", "t", "y", "p", "e">>

\* utils.py 507-532: the careers analyze_tech_stack_for_career has a
\* standard stack for
IndustryStandards ==
    { Str(<<"Machine Learning Engineer">>), Str(<<"Data Scientist">>),
      Str(<<"Full Stack Developer">>), Str(<<"Software Engineer">>) }

\* utils.py 534-569: the result is stored unread
CareerAlignment == Str(<<"career_alignment">>)
CareerFocused == Str(<<"career_focused">>)

FocusCareers ==
    { None, Str(<<>>), Str(<<"Data Scientist">>), Str(<<"Software Engineer">>),
      Str(<<"Poet">>) }

\* what the revising model can answer the wrapped analysis with: the
\* answers of ReviseOutputs and reports with more or less of the structure
\* the wrapper reads
FocusReviseOutputs ==
    ReviseOutputs \cup
    { <<"{", DQ, "r", "e", "p", "o", "r", "t", DQ, ":", " ", "5", "}">>,
      <<"{", DQ, "r", "e", "p", "o", "r", "t", DQ, ":", " ", "{", DQ, "c", "a", "r", "e", "e", "r", "_", "a", "n", "a", "l", "y", "s", "i", "s", DQ, ":", " ", "[", "]", "}", "}">>,
      <<"{", DQ, "r", "e", "p", "o", "r", "t", DQ, ":", " ", "{", DQ, "p", "r", "o", "j", "e", "c", "t", "_", "s", "u", "m", "m", "a", "r", "y", DQ, ":", " ", "{", DQ, "t", "e", "c", "h", "_", "s", "t", "a", "c", "k", DQ, ":", " ", "[", DQ, "R", DQ, "]", "}", "}", "}">>,
      <<"{", DQ, "r", "e", "p", "o", "r", "t", DQ, ":", " ", "{", DQ, "p", "r", "o", "j", "e", "c", "t", "_", "s", "u", "m", "m", "a", "r", "y", DQ, ":", " ", "{", DQ, "t", "e", "c", "h", "_", "s", "t", "a", "c", "k", DQ, ":", " ", "5", "}", "}", "}">>,
      <<"[", "]">> }

\* lines 139-189 of analyze_repository for a revised report and the insights
ResponseOf(final_report_dict, additional_career_insights, career_path) ==
    IF MetadataTestRaises(Enhanced(final_report_dict, additional_career_insights),
                          career_path)
    THEN Failed(NotIterable)
    ELSE Succeeded(WithCareerMetadata(Enhanced(final_report_dict,
                                               additional_career_insights),
                                      career_path),
                   career_path)

\* revise_report's outcome turned into the result of analyze_repository
RevisedResponse(made, additional_career_insights, career_path) ==
    IF made.ok THEN ResponseOf(made.val, additional_career_insights, career_path)
    ELSE Failed(ReportValidationFailed)

\* lines 23-197: what analyze_repository can return for a career path
AnalyzeOutcomes(career_path) ==
    { Rejected(Str(<<"Invalid GitHub URL. Please provide a repository URL like https://github.com/username/repo">>),
               "Invalid GitHub URL format"),
      Rejected(Str(<<"Repository not found or private. Please check the GitHub URL or token permissions.">>),
               "Repository access failed"),
      Rejected(Str(<<NoDetermination>>), "Repository validation failed"),
      Failed(CollaboratorError) }
    \cup { Rejected(reason, "Repository analysis was rejected") : reason \in FetchRejections }
    \cup { RevisedResponse(ParsedFinal(content), insights, career_path) :
             content \in FocusReviseOutputs, insights \in InsightsOutputs }

\* line 224: final_report.get("report", {}).get("project_summary", {})
\*           .get("tech_stack", []) needs a mapping at every level present
TechStackGettable(final_report) ==
    /\ IsDict(final_report)
    /\ HasKey(final_report, K_report) =>
          /\ IsDict(final_report.v[K_report])
          /\ HasKey(final_report.v[K_report], K_project_summary) =>
                IsDict(final_report.v[K_report].v[K_project_summary])

\* lines 224-239 run without an exception: the tech stack is read, iterated
\* when the career has a standard stack (utils.py 547), final_report["report"]
\* exists and its career_analysis takes items
FocusRuns(final_report, career_path) ==
    /\ TechStackGettable(final_report)
    /\ (career_path \in IndustryStandards /\ HasKey(final_report, K_report))
          => TechStackReadable(final_report.v[K_report])
    /\ TakesCareerItems(final_report)

\* lines 244-250
FocusFailed ==
    [status |-> "error", data |-> [error |-> Str(<<"exception">>)],
     message |-> <<"Error in career-focused analysis: ", "exception">>]

\* lines 235-239
FocusEnhanced(inner) ==
    [inner EXCEPT !.data.final_report =
        WithCareerItems(@, (K_detailed_alignment :> CareerAlignment)
                           @@ (K_analysis_type :> CareerFocused))]

FocusIdle ==
    /\ focus_pc = "idle"
    /\ focus_career = NoVal
    /\ inner_result = NoResult
    /\ focus_result = NoResult

CallCareerFocus ==
    /\ focus_pc = "idle"
    /\ \E career_path \in FocusCareers : focus_career' = career_path
    /\ focus_pc' = "called"
    /\ UNCHANGED <<inner_result, focus_result>>

\* lines 207-212
FocusReject ==
    /\ focus_pc = "called"
    /\ ~Truthy(focus_career)
    /\ focus_result' = Rejected(Str(<<"Career path is required for career-focused analysis">>),
                                "Career-focused analysis requires a specified career path")
    /\ focus_pc' = "done"
    /\ UNCHANGED <<focus_career, inner_result>>

\* lines 215-221
FocusAnalyzed ==
    /\ focus_pc = "called"
    /\ Truthy(focus_career)
    /\ \E inner \in AnalyzeOutcomes(focus_career) : inner_result' = inner
    /\ focus_pc' = "analyzed"
    /\ UNCHANGED <<focus_career, focus_result>>

\* lines 224-243: the successful analysis is enhanced and returned
FocusEnhance ==
    /\ focus_pc = "analyzed"
    /\ inner_result.status = "success"
    /\ FocusRuns(inner_result.data.final_report, focus_career)
    /\ focus_result' = FocusEnhanced(inner_result)
    /\ focus_pc' = "done"
    /\ UNCHANGED <<focus_career, inner_result>>

\* lines 224-239 raise, lines 244-250 answer
FocusExcept ==
    /\ focus_pc = "analyzed"
    /\ inner_result.status = "success"
    /\ ~FocusRuns(inner_result.data.final_report, focus_career)
    /\ focus_result' = FocusFailed
    /\ focus_pc' = "done"
    /\ UNCHANGED <<focus_career, inner_result>>

\* lines 222 and 243: any other result is returned as it is
FocusReturn ==
    /\ focus_pc = "analyzed"
    /\ inner_result.status # "success"
    /\ focus_result' = inner_result
    /\ focus_pc' = "done"
    /\ UNCHANGED <<focus_career, inner_result>>

(***************************************************************************)
(* analyze_multiple_career_paths (controller.py 335-456): one repository   *)
(* analysed for a list of career paths.                                    *)
(*   multi_repo       the github_repo argument                             *)
(*   career_paths     the list of career paths asked for                   *)
(*   fetched          how often extract_repo_content has been called       *)
(*   path_i           the index of the career path the loop stands at      *)
(*   path_log         per iteration of the loop, how it ended              *)
(*   career_analyses  the dict of the loop, as its items in insertion order*)
(*   multi_result     what the function returns                            *)
(*   multi_pc         where the function stands                            *)
(***************************************************************************)
VARIABLES multi_repo, career_paths, fetched, path_i, path_log, career_analyses,
          multi_result, multi_pc

mvars == <<multi_repo, career_paths, fetched, path_i, path_log, career_analyses,
           multi_result, multi_pc>>

MaxAsked == 2

K_career_relevance_score == <<"c", "a", "r", "e", "e", "r", "_", "r", "e", "l", "e", "v", "a", "n", "c", "e", "_", "s", "c", "o", "r", "e">>

AskedCareers == { Str(<<"Data Scientist">>), Str(<<"Software Engineer">>) }

\* the lists of career paths of a request: any list, a career can repeat
AskedLists == UNION { [1..n -> AskedCareers] : n \in 0..MaxAsked }

MultiRepos == { GithubPrefix \o <<"o", "/", "r", "/">>, <<"o">> }

\* what the revising model can answer for one career path
MultiReviseOutputs ==
    { <<"{", DQ, "r", "e", "p", "o", "r", "t", DQ, ":", " ", "{", DQ, "c", "a", "r", "e", "e", "r", "_", "a", "n", "a", "l", "y", "s", "i", "s", DQ, ":", " ", "{", DQ, "c", "a", "r", "e", "e", "r", "_", "r", "e", "l", "e", "v", "a", "n", "c", "e", "_", "s", "c", "o", "r", "e", DQ, ":", " ", "7", "}", "}", "}">>,
      <<"{", DQ, "r", "e", "p", "o", "r", "t", DQ, ":", " ", "{", DQ, "c", "a", "r", "e", "e", "r", "_", "a", "n", "a", "l", "y", "s", "i", "s", DQ, ":", " ", "{", DQ, "c", "a", "r", "e", "e", "r", "_", "r", "e", "l", "e", "v", "a", "n", "c", "e", "_", "s", "c", "o", "r", "e", DQ, ":", " ", DQ, "h", "i", "g", "h", DQ, "}", "}", "}">>,
      <<"{", DQ, "r", "e", "p", "o", "r", "t", DQ, ":", " ", "{", "}", "}">>,
      <<"n", "u", "l", "l">>,
      <<"s", "o", "r", "r", "y">> }

\* dict.get(k, default) on a mapping
GetOr(d, k, default) == IF k \in DOMAIN d.v THEN d.v[k] ELSE default

\* lines 416 and 421: both chains of .get need a mapping at every level
ScoreGettable(final_report) ==
    /\ IsDict(final_report)
    /\ IsDict(GetOr(final_report, K_report, Obj(<<>>)))
    /\ IsDict(GetOr(GetOr(final_report, K_report, Obj(<<>>)), K_career_analysis, Obj(<<>>)))

\* lines 418-422
AnalysisOf(final_report) ==
    [career_relevance_score |->
        GetOr(GetOr(GetOr(final_report, K_report, Obj(<<>>)), K_career_analysis, Obj(<<>>)),
              K_career_relevance_score, Num(<<"0">>)),
     analysis_available |-> TRUE,
     report_summary |-> GetOr(GetOr(final_report, K_report, Obj(<<>>)),
                              K_project_summary, Obj(<<>>)),
     error |-> NoVal]

\* lines 426-430
NoAnalysis(e) ==
    [career_relevance_score |-> Num(<<"0">>), analysis_available |-> FALSE,
     report_summary |-> NoVal, error |-> e]

\* career_analyses[career_path] = analysis: a key met before keeps its place
SetItem(items, key, value) ==
    IF \E i \in 1..Len(items) : items[i].key = key
    THEN [i \in 1..Len(items) |->
             IF items[i].key = key THEN [key |-> key, value |-> value] ELSE items[i]]
    ELSE Append(items, [key |-> key, value |-> value])

DigitValue(c) ==
    CHOOSE d \in 0..9 : <<"0", "1", "2", "3", "4", "5", "6", "7", "8", "9">>[d + 1] = c

RECURSIVE IntOf(_)
IntOf(digits) ==
    IF digits = <<>> THEN 0
    ELSE 10 * IntOf(SubSeq(digits, 1, Len(digits) - 1)) + DigitValue(digits[Len(digits)])

ScoreOf(item) == item.value.career_relevance_score

\* lines 433-437: sorted compares the scores with <; integers compare with
\* integers and strings with strings, a string against an integer raises
\* TypeError.  One item is never compared.
SortRaises(items) ==
    /\ Len(items) > 1
    /\ ~ \/ \A i \in 1..Len(items) : ScoreOf(items[i]).t = "num"
         \/ \A i \in 1..Len(items) : ScoreOf(items[i]).t = "str"

\* score a is greater than score b; the string scores of MultiReviseOutputs
\* are all the same string
Greater(a, b) == a.t = "num" /\ b.t = "num" /\ IntOf(a.v) > IntOf(b.v)

\* lines 433-437: the items by descending score, items of equal score in
\* the order they had (sorted is stable, also with reverse=True)
SortedAnalyses(items) ==
    LET n == Len(items)
        perm == CHOOSE p \in [1..n -> 1..n] :
                    /\ \A i, j \in 1..n : i # j => p[i] # p[j]
                    /\ \A i, j \in 1..n : i < j =>
                          \/ Greater(ScoreOf(items[p[i]]), ScoreOf(items[p[j]]))
                          \/ /\ ~Greater(ScoreOf(items[p[j]]), ScoreOf(items[p[i]]))
                             /\ p[i] < p[j]
    IN  [i \in 1..n |-> items[perm[i]]]

Available(items) == {i \in 1..Len(items) : items[i].value.analysis_available}

\* lines 439-448
Compared(items, asked) ==
    [status |-> "success",
     data |-> [career_comparison |-> SortedAnalyses(items),
               top_career_match |-> IF items # <<>> THEN SortedAnalyses(items)[1].key
                                    ELSE Str(<<"No clear match">>),
               total_careers_analyzed |-> Len(asked),
               successful_analyses |-> Cardinality(Available(items))],
     message |-> <<"Comparative analysis completed">>]

\* lines 450-456
MultiFailed(e) ==
    [status |-> "error", data |-> [error |-> e],
     message |-> <<"Error in multiple career path analysis: ">> \o e.v]

SortTypeError == Str(<<"'<' not supported between instances of 'int' and 'str'">>)
NoGet == Str(<<"'NoneType' object has no attribute 'get'">>)

MultiIdle ==
    /\ multi_pc = "idle"
    /\ multi_repo = <<>>
    /\ career_paths = <<>>
    /\ fetched = 0
    /\ path_i = 0
    /\ path_log = <<>>
    /\ career_analyses = <<>>
    /\ multi_result = NoResult

CallMultiple ==
    /\ multi_pc = "idle"
    /\ \E github_repo \in MultiRepos, asked \in AskedLists :
          /\ multi_repo' = github_repo
          /\ career_paths' = asked
    /\ multi_pc' = "called"
    /\ UNCHANGED <<fetched, path_i, path_log, career_analyses, multi_result>>

\* lines 341-346
MultiRejectEmpty ==
    /\ multi_pc = "called"
    /\ career_paths = <<>>
    /\ multi_result' = Rejected(Str(<<"No career paths provided for analysis">>),
                                "Please provide at least one career path for comparative analysis")
    /\ multi_pc' = "done"
    /\ UNCHANGED <<multi_repo, career_paths, fetched, path_i, path_log, career_analyses>>

\* lines 349-356
MultiCheckUrl ==
    /\ multi_pc = "called"
    /\ career_paths # <<>>
    /\ IF IsValidGithubUrl(CleanGithubUrl(multi_repo))
       THEN multi_pc' = "repo_exists" /\ multi_result' = multi_result
       ELSE /\ multi_pc' = "done"
            /\ multi_result' = Rejected(Str(<<"Invalid GitHub URL format">>),
                                        "Repository analysis was rejected due to invalid URL")
    /\ UNCHANGED <<multi_repo, career_paths, fetched, path_i, path_log, career_analyses>>

\* lines 358-363
MultiRepoExists ==
    /\ multi_pc = "repo_exists"
    /\ \E exists \in BOOLEAN :
          IF exists
          THEN multi_pc' = "extract_repo_content" /\ multi_result' = multi_result
          ELSE /\ multi_pc' = "done"
               /\ multi_result' = Rejected(Str(<<"Repository not found or private">>),
                                           "Repository analysis was rejected due to inaccessible repository")
    /\ UNCHANGED <<multi_repo, career_paths, fetched, path_i, path_log, career_analyses>>

\* lines 366-376: the content is fetched, before the loop
MultiFetch ==
    /\ multi_pc = "extract_repo_content"
    /\ fetched' = fetched + 1
    /\ \/ /\ multi_pc' = "loop"
          /\ path_i' = 1
          /\ multi_result' = multi_result
       \/ \E reason \in FetchRejections :
             /\ multi_pc' = "done"
             /\ path_i' = path_i
             /\ multi_result' = Rejected(reason, "Repository analysis was rejected")
    /\ UNCHANGED <<multi_repo, career_paths, path_log, career_analyses>>

\* repo_exists or extract_repo_content raises: lines 450-456
MultiRaises ==
    /\ multi_pc \in {"repo_exists", "extract_repo_content"}
    /\ fetched' = IF multi_pc = "extract_repo_content" THEN fetched + 1 ELSE fetched
    /\ multi_result' = MultiFailed(CollaboratorError)
    /\ multi_pc' = "done"
    /\ UNCHANGED <<multi_repo, career_paths, path_i, path_log, career_analyses>>

\* lines 381-430, a collaborator of the iteration raising: the path is
\* marked as not analysed and the loop goes on
MultiPathRaises ==
    /\ multi_pc = "loop"
    /\ path_i <= Len(career_paths)
    /\ career_analyses' = SetItem(career_analyses, career_paths[path_i],
                                  NoAnalysis(CollaboratorError))
    /\ path_log' = Append(path_log, "failed")
    /\ path_i' = path_i + 1
    /\ UNCHANGED <<multi_repo, career_paths, fetched, multi_result, multi_pc>>

\* the entry of a career path whose revise stage made `made` of the answer
EntryOf(made) ==
    IF ~made.ok THEN NoAnalysis(ReportValidationFailed)
    ELSE IF ~ScoreGettable(made.val) THEN NoAnalysis(NoGet)
    ELSE AnalysisOf(made.val)

\* lines 381-430, the three stages answering
MultiPathRevised ==
    /\ multi_pc = "loop"
    /\ path_i <= Len(career_paths)
    /\ \E content \in MultiReviseOutputs :
          \E entry \in {EntryOf(ParsedFinal(content))} :
             /\ career_analyses' = SetItem(career_analyses, career_paths[path_i], entry)
             /\ path_log' = Append(path_log, IF entry.analysis_available
                                             THEN "analysed" ELSE "failed")
    /\ path_i' = path_i + 1
    /\ UNCHANGED <<multi_repo, career_paths, fetched, multi_result, multi_pc>>

\* lines 433-456: the loop is over, the analyses are sorted and returned
MultiRespond ==
    /\ multi_pc = "loop"
    /\ path_i > Len(career_paths)
    /\ multi_result' = IF SortRaises(career_analyses)
                       THEN MultiFailed(SortTypeError)
                       ELSE Compared(career_analyses, career_paths)
    /\ multi_pc' = "done"
    /\ UNCHANGED <<multi_repo, career_paths, fetched, path_i, path_log, career_analyses>>

(***************************************************************************)
(* The Streamlit path (streamlit_app.py): analyze_repository and its own   *)
(* extract_json_from_response.                                             *)
(*   st_repo         the github_repo argument                              *)
(*   initial_report  what generate_initial_report returned                 *)
(*   st_json_str     the cleaned span of the except branch                 *)
(*   st_result       what analyze_repository returns                       *)
(*   st_pc           where analyze_repository stands                       *)
(***************************************************************************)
VARIABLES st_repo, initial_report, st_json_str, st_result, st_pc

svars == <<st_repo, initial_report, st_json_str, st_result, st_pc>>

\* str.replace(old, new)
RECURSIVE ReplaceFrom(_, _, _, _, _)
ReplaceFrom(s, old, new, i, acc) ==
    IF i >= Len(s) THEN acc
    ELSE IF StartsWithAt(s, old, i)
    THEN ReplaceFrom(s, old, new, i + Len(old), acc \o new)
    ELSE ReplaceFrom(s, old, new, i + 1, Append(acc, s[i + 1]))

Replace(s, old, new) == ReplaceFrom(s, old, new, 0, <<>>)

\* lines 344-345: re.sub(r',\s*}', '}', s) and re.sub(r',\s*]', ']', s);
\* closer is } or ]
RECURSIVE DropCommaFrom(_, _, _, _)
DropCommaFrom(s, closer, i, acc) ==
    IF i >= Len(s) THEN acc
    ELSE IF s[i + 1] = "," /\ At(s, WsEnd(s, i + 1)) = closer
    THEN DropCommaFrom(s, closer, WsEnd(s, i + 1) + 1, Append(acc, closer))
    ELSE DropCommaFrom(s, closer, i + 1, Append(acc, s[i + 1]))

DropCommaBefore(s, closer) == DropCommaFrom(s, closer, 0, <<>>)

\* lines 339-341: is there a { and a } in the response
BracesFound(text) ==
    Find(text, <<"{">>) # -1 /\ RFind(text, <<"}">>) + 1 # 0

\* lines 342-345: the span from the first { to the last }, cleaned
CleanedSpan(text) ==
    DropCommaBefore(
        DropCommaBefore(
            Replace(Replace(Slice(text, Find(text, <<"{">>),
                                  RFind(text, <<"}">>) + 1),
                            <<BS, "n">>, <<" ">>),
                    <<BS, "t">>, <<" ">>),
            "}"),
        "]")

\* lines 348-365: the report returned when the response has no braces
K_hidevs_score == <<"h", "i", "d", "e", "v", "s", "_", "s", "c", "o", "r", "e">>
K_final_deliverables == <<"f", "i", "n", "a", "l", "_", "d", "e", "l", "i", "v", "e", "r", "a", "b", "l", "e", "s">>

PlaceholderReport ==
    Obj((K_project_summary :> Str(<<"Analysis Report">>))
        @@ (K_hidevs_score :> Str(<<"Basic analysis completed">>))
        @@ (K_final_deliverables :> Str(<<"Full detailed analysis unavailable">>)))

\* lines 432-436
StSucceeded(report_json) ==
    [status |-> "success", data |-> [final_report |-> report_json],
     message |-> <<"Analysis completed successfully">>]

StRejected(reason, message) ==
    [status |-> "rejected", data |-> [rejection_reason |-> reason], message |-> <<message>>]

\* lines 437-442
ParseFailed ==
    [status |-> "error", data |-> [error |-> Str(<<"Failed to parse report: ">>)],
     message |-> <<"Report parsing failed">>]

\* lines 421-426
Unavailable ==
    [status |-> "error", data |-> [error |-> Str(<<"AI service unavailable">>)],
     message |-> <<"Report generation failed">>]

\* lines 444-449
AnalysisError ==
    [status |-> "error", data |-> [error |-> CollaboratorError],
     message |-> <<"Analysis error: ">> \o CollaboratorError.v]

\* what call_gemini can answer the report prompt with: a text that is not
\* empty (lines 72-73), None otherwise
StResponses ==
    ({c.text : c \in ExtractCases} \ {<<>>})
    \cup { <<"S", "o", "r", "r", "y", ",", " ", "n", "o", " ", "r", "e", "p", "o", "r", "t", ".">>,
           <<"{", DQ, "a", DQ, ":", " ", "[", "1", ",", " ", "]", ",", " ", "}">>,
           <<"H", "e", "r", "e", ":", " ", "{", DQ, "a", DQ, ":", " ", "1", "}", " ", "B", "y", "e">>,
           <<"}", " ", "b", "a", "c", "k", " ", "{">>,
           <<"x", " ", "{", DQ, "a", DQ, ":", BS, "n", "1", "}">> }

StIdle ==
    /\ st_pc = "idle"
    /\ st_repo = <<>>
    /\ initial_report = NoVal
    /\ st_json_str = <<>>
    /\ st_result = NoResult

CallStreamlit ==
    /\ st_pc = "idle"
    /\ \E github_repo \in MultiRepos : st_repo' = github_repo
    /\ st_pc' = "called"
    /\ UNCHANGED <<initial_report, st_json_str, st_result>>

\* lines 372-378
StCheckUrl ==
    /\ st_pc = "called"
    /\ IF IsValidGithubUrl(CleanGithubUrl(st_repo))
       THEN st_pc' = "repo_exists" /\ st_result' = st_result
       ELSE /\ st_pc' = "done"
            /\ st_result' = StRejected(Str(<<"Invalid GitHub URL format">>),
                                       "Invalid repository URL")
    /\ UNCHANGED <<st_repo, initial_report, st_json_str>>

\* lines 381-386
StRepoExists ==
    /\ st_pc = "repo_exists"
    /\ \E exists \in BOOLEAN :
          IF exists
          THEN st_pc' = "extract_repo_content" /\ st_result' = st_result
          ELSE /\ st_pc' = "done"
               /\ st_result' = StRejected(Str(<<"Repository not found, private, or inaccessible">>),
                                          "Repository access failed")
    /\ UNCHANGED <<st_repo, initial_report, st_json_str>>

\* lines 390-398 with 112-173
StExtractRepoContent ==
    /\ st_pc = "extract_repo_content"
    /\ \/ st_pc' = "validate_project_alignment" /\ st_result' = st_result
       \/ \E reason \in { Str(<<"Repository is private">>), Str(<<"No README file found">>),
                          Str(<<"README is too short or uninformative">>),
                          Str(<<"Could not access repository: ">>) } :
             /\ st_pc' = "done"
             /\ st_result' = StRejected(reason, "Repository access failed")
    /\ UNCHANGED <<st_repo, initial_report, st_json_str>>

\* lines 402-412 with 175-212
StValidate ==
    /\ st_pc = "validate_project_alignment"
    /\ \/ st_pc' = "generate_initial_report" /\ st_result' = st_result
       \/ \E reason \in { Str(<<"AI service unavailable">>), Str(<<"off">>),
                          Str(<<"Validation failed: ">>) } :
             /\ st_pc' = "done"
             /\ st_result' = StRejected(reason, "Project validation failed")
    /\ UNCHANGED <<st_repo, initial_report, st_json_str>>

\* a collaborator raises: lines 444-449
StRaises ==
    /\ st_pc \in {"extract_repo_content", "validate_project_alignment",
                  "generate_initial_report"}
    /\ st_result' = AnalysisError
    /\ st_pc' = "done"
    /\ UNCHANGED <<st_repo, initial_report, st_json_str>>

\* lines 416-419 with 214-329
StGenerate ==
    /\ st_pc = "generate_initial_report"
    /\ \E answer \in {None} \cup {Str(x) : x \in StResponses} :
          initial_report' = answer
    /\ st_pc' = "generated"
    /\ UNCHANGED <<st_repo, st_json_str, st_result>>

\* lines 421-426
StUnavailable ==
    /\ st_pc = "generated"
    /\ initial_report = None
    /\ st_result' = Unavailable
    /\ st_pc' = "done"
    /\ UNCHANGED <<st_repo, initial_report, st_json_str>>

\* lines 336-337 and 430-436: the whole response is JSON
StTryParse ==
    /\ st_pc = "generated"
    /\ initial_report # None
    /\ \E parsed \in {JsonLoads(initial_report.v)} :
          IF parsed.ok
          THEN st_pc' = "done" /\ st_result' = StSucceeded(parsed.val)
          ELSE st_pc' = "except" /\ st_result' = st_result
    /\ UNCHANGED <<st_repo, initial_report, st_json_str>>

\* lines 338-345: the span between the braces is cut and cleaned
StCut ==
    /\ st_pc = "except"
    /\ BracesFound(initial_report.v)
    /\ st_json_str' = CleanedSpan(initial_report.v)
    /\ st_pc' = "cut"
    /\ UNCHANGED <<st_repo, initial_report, st_result>>

\* line 346 with 430-442
StLoadCut ==
    /\ st_pc = "cut"
    /\ \E parsed \in {JsonLoads(st_json_str)} :
          st_result' = IF parsed.ok THEN StSucceeded(parsed.val) ELSE ParseFailed
    /\ st_pc' = "done"
    /\ UNCHANGED <<st_repo, initial_report, st_json_str>>

\* lines 348-365 with 430-436: no braces, the placeholder is the report
StPlaceholder ==
    /\ st_pc = "except"
    /\ ~BracesFound(initial_report.v)
    /\ st_result' = StSucceeded(PlaceholderReport)
    /\ st_pc' = "done"
    /\ UNCHANGED <<st_repo, initial_report, st_json_str>>

(***************************************************************************)
(* The specifications.  Every one starts with nothing called; each follows *)
(* one part of the program and leaves the state of the others alone.       *)
(***************************************************************************)
allvars == <<vars, pvars, rvars, uvars, fvars, mvars, svars>>

Init == CoreIdle /\ PipelineIdle /\ RoutesIdle /\ CleanIdle /\ FocusIdle
        /\ MultiIdle /\ StIdle

\* the Extractor and the Repairer, called directly
Next ==
    \/ CallExtract /\ UNCHANGED <<pvars, rvars, uvars, fvars, mvars, svars>>
    \/ ExtractTryParse /\ UNCHANGED <<pvars, rvars, uvars, fvars, mvars, svars>>
    \/ ExtractWindow /\ UNCHANGED <<pvars, rvars, uvars, fvars, mvars, svars>>
    \/ CallFix /\ UNCHANGED <<pvars, rvars, uvars, fvars, mvars, svars>>
    \/ FixTryParse /\ UNCHANGED <<pvars, rvars, uvars, fvars, mvars, svars>>
    \/ FixRepair /\ UNCHANGED <<pvars, rvars, uvars, fvars, mvars, svars>>
    \/ FixVerify /\ UNCHANGED <<pvars, rvars, uvars, fvars, mvars, svars>>
    \/ FixReturn /\ UNCHANGED <<pvars, rvars, uvars, fvars, mvars, svars>>
    \/ ExtractLoadFixed /\ UNCHANGED <<pvars, rvars, uvars, fvars, mvars, svars>>

Spec == Init /\ [][Next]_allvars

\* analyze_repository, two requests in flight
PipelineNext ==
    \/ \E r \in Reqs : Receive(r) /\ UNCHANGED <<vars, rvars, uvars, fvars, mvars, svars>>
    \/ \E r \in Reqs : CheckUrl(r) /\ UNCHANGED <<vars, rvars, uvars, fvars, mvars, svars>>
    \/ \E r \in Reqs : Invoke(r) /\ UNCHANGED <<vars, rvars, uvars, fvars, mvars, svars>>
    \/ \E r \in Reqs : StageRaises(r) /\ UNCHANGED <<vars, rvars, uvars, fvars, mvars, svars>>
    \/ \E r \in Reqs : RepoExistsReturns(r) /\ UNCHANGED <<vars, rvars, uvars, fvars, mvars, svars>>
    \/ \E r \in Reqs : ExtractRepoContentReturns(r) /\ UNCHANGED <<vars, rvars, uvars, fvars, mvars, svars>>
    \/ \E r \in Reqs : ValidateReturns(r) /\ UNCHANGED <<vars, rvars, uvars, fvars, mvars, svars>>
    \/ \E r \in Reqs : InsightsReturns(r) /\ UNCHANGED <<vars, rvars, uvars, fvars, mvars, svars>>
    \/ \E r \in Reqs : GenerateReturns(r) /\ UNCHANGED <<vars, rvars, uvars, fvars, mvars, svars>>
    \/ \E r \in Reqs : ReviewReturns(r) /\ UNCHANGED <<vars, rvars, uvars, fvars, mvars, svars>>
    \/ \E r \in Reqs : ReviseReturns(r) /\ UNCHANGED <<vars, rvars, uvars, fvars, mvars, svars>>
    \/ \E r \in Reqs : Respond(r) /\ UNCHANGED <<vars, rvars, uvars, fvars, mvars, svars>>

PipelineSpec == Init /\ [][PipelineNext]_allvars

\* the request handlers
RoutesNext ==
    \/ RouteReceive /\ UNCHANGED <<vars, pvars, uvars, fvars, mvars, svars>>
    \/ RouteValidate /\ UNCHANGED <<vars, pvars, uvars, fvars, mvars, svars>>
    \/ RouteController /\ UNCHANGED <<vars, pvars, uvars, fvars, mvars, svars>>
    \/ RouteExcept /\ UNCHANGED <<vars, pvars, uvars, fvars, mvars, svars>>

RoutesSpec == Init /\ [][RoutesNext]_allvars

\* clean_github_url
CleanNext ==
    \/ CallCleanGithubUrl /\ UNCHANGED <<vars, pvars, rvars, fvars, mvars, svars>>
    \/ CleanStrip /\ UNCHANGED <<vars, pvars, rvars, fvars, mvars, svars>>
    \/ CleanDropDotGit /\ UNCHANGED <<vars, pvars, rvars, fvars, mvars, svars>>
    \/ CleanRStripSlash /\ UNCHANGED <<vars, pvars, rvars, fvars, mvars, svars>>
    \/ CleanDropTreeBlob /\ UNCHANGED <<vars, pvars, rvars, fvars, mvars, svars>>

CleanSpec == Init /\ [][CleanNext]_allvars

\* analyze_repository_career_focus
FocusNext ==
    \/ CallCareerFocus /\ UNCHANGED <<vars, pvars, rvars, uvars, mvars, svars>>
    \/ FocusReject /\ UNCHANGED <<vars, pvars, rvars, uvars, mvars, svars>>
    \/ FocusAnalyzed /\ UNCHANGED <<vars, pvars, rvars, uvars, mvars, svars>>
    \/ FocusEnhance /\ UNCHANGED <<vars, pvars, rvars, uvars, mvars, svars>>
    \/ FocusExcept /\ UNCHANGED <<vars, pvars, rvars, uvars, mvars, svars>>
    \/ FocusReturn /\ UNCHANGED <<vars, pvars, rvars, uvars, mvars, svars>>

FocusSpec == Init /\ [][FocusNext]_allvars

\* analyze_multiple_career_paths
MultiNext ==
    \/ CallMultiple /\ UNCHANGED <<vars, pvars, rvars, uvars, fvars, svars>>
    \/ MultiRejectEmpty /\ UNCHANGED <<vars, pvars, rvars, uvars, fvars, svars>>
    \/ MultiCheckUrl /\ UNCHANGED <<vars, pvars, rvars, uvars, fvars, svars>>
    \/ MultiRepoExists /\ UNCHANGED <<vars, pvars, rvars, uvars, fvars, svars>>
    \/ MultiFetch /\ UNCHANGED <<vars, pvars, rvars, uvars, fvars, svars>>
    \/ MultiRaises /\ UNCHANGED <<vars, pvars, rvars, uvars, fvars, svars>>
    \/ MultiPathRaises /\ UNCHANGED <<vars, pvars, rvars, uvars, fvars, svars>>
    \/ MultiPathRevised /\ UNCHANGED <<vars, pvars, rvars, uvars, fvars, svars>>
    \/ MultiRespond /\ UNCHANGED <<vars, pvars, rvars, uvars, fvars, svars>>

MultiSpec == Init /\ [][MultiNext]_allvars

\* analyze_repository of streamlit_app.py
StNext ==
    \/ CallStreamlit /\ UNCHANGED <<vars, pvars, rvars, uvars, fvars, mvars>>
    \/ StCheckUrl /\ UNCHANGED <<vars, pvars, rvars, uvars, fvars, mvars>>
    \/ StRepoExists /\ UNCHANGED <<vars, pvars, rvars, uvars, fvars, mvars>>
    \/ StExtractRepoContent /\ UNCHANGED <<vars, pvars, rvars, uvars, fvars, mvars>>
    \/ StValidate /\ UNCHANGED <<vars, pvars, rvars, uvars, fvars, mvars>>
    \/ StRaises /\ UNCHANGED <<vars, pvars, rvars, uvars, fvars, mvars>>
    \/ StGenerate /\ UNCHANGED <<vars, pvars, rvars, uvars, fvars, mvars>>
    \/ StUnavailable /\ UNCHANGED <<vars, pvars, rvars, uvars, fvars, mvars>>
    \/ StTryParse /\ UNCHANGED <<vars, pvars, rvars, uvars, fvars, mvars>>
    \/ StCut /\ UNCHANGED <<vars, pvars, rvars, uvars, fvars, mvars>>
    \/ StLoadCut /\ UNCHANGED <<vars, pvars, rvars, uvars, fvars, mvars>>
    \/ StPlaceholder /\ UNCHANGED <<vars, pvars, rvars, uvars, fvars, mvars>>

StSpec == Init /\ [][StNext]_allvars

(***************************************************************************)
(* Claims about the Repairer and the Extractor                             *)
(***************************************************************************)
FixDone == fix_ret.done
Done == pc = "done"
HasBrace(s) == \E i \in 1..Len(s) : s[i] \in {"{", "}"}
RepairPath == "passes" \in invoked

\* C1: whenever fix_malformed_json has finished on a text that parses as
\* JSON, it has returned (not raised) exactly that text, character for
\* character; the caller that invoked it directly receives that text.
C1_ValidJsonIsReturnedUnchanged ==
    /\ (FixDone /\ JsonLoads(json_str).ok) => fix_ret = FixReturned(json_str)
    /\ (Done /\ fn = "fix" /\ JsonLoads(json_str).ok) => ret = RetText(json_str)

\* C1 witness: a padded valid text went through fix_malformed_json and came back
C1_Witness ==
    /\ Done /\ fn = "fix" /\ given.fam = "raw"
    /\ JsonLoads(json_str).ok /\ json_str # Strip(json_str)
    /\ ret.kind = "text"

\* C2: fix_malformed_json ends in one of two ways: it returns a text, and
\* that text parses as JSON, or it raises and no text is returned.
C2_ReturnsParseableTextOrRaises ==
    /\ FixDone =>
         IF fix_ret.ok THEN JsonLoads(fix_ret.text).ok ELSE fix_ret.text = <<>>
    /\ (Done /\ fn = "fix") =>
         \/ ret.kind = "text" /\ JsonLoads(ret.text).ok
         \/ ret.kind = "error" /\ ret.text = <<>>

\* C2 witness: a text that did not parse was repaired into one that does
C2_Witness ==
    /\ Done /\ fn = "fix" /\ RepairPath
    /\ ret.kind = "text" /\ ret.text # json_str

\* C2 second outcome reached: the repair failed and an error was raised
C2_WitnessRaised == Done /\ fn = "fix" /\ RepairPath /\ ret.kind = "error"

\* C3: a mapping D serialised to JSON, wrapped in a json fence with prose
\* before and after, comes back from extract_json_from_llm_response as a
\* document equal to D.
C3_RoundTrip ==
    (Done /\ given.fam = "fenced") => ret = RetValue(given.doc)

\* C3 witness: a document with two members and a nested value was recovered
C3_Witness ==
    /\ Done /\ given.fam = "fenced"
    /\ DOMAIN given.doc.v = {KeyA, KeyB}
    /\ given.doc.v[KeyA].t \in {"arr", "obj"}
    /\ ret.kind = "value" /\ ret.val = given.doc

\* C4: when the whole model output parses as JSON, the Extractor returns the
\* parsed value of the whole input, and neither the window search nor
\* fix_malformed_json nor any repair pass has run.
C4_FastPathSkipsRepair ==
    (Done /\ fn = "extract" /\ JsonLoads(response).ok) =>
        /\ ret = RetValue(JsonLoads(response).val)
        /\ invoked = {"json.loads"}

\* C4 witness: an object text was returned by the fast path
C4_Witness ==
    /\ Done /\ fn = "extract" /\ JsonLoads(response).ok
    /\ ret.kind = "value" /\ ret.val.t = "obj" /\ DOMAIN ret.val.v # {}

\* C5: for prose, a block opened by the json fence marker and closed by the
\* fence, then prose, the content window is the text between the two
\* markers, trimmed of leading and trailing whitespace.
C5_FenceWindowIsTrimmedContent ==
    (given.fam \in {"fenced", "fenced_raw"} /\ "find" \in invoked) =>
        /\ ret.err \notin {NoJsonFound, NoClosing}
        /\ json_str = given.base

\* C5 witness: a fenced block whose content is padded with whitespace
C5_Witness ==
    /\ given.fam = "fenced_raw" /\ "find" \in invoked
    /\ json_str = <<"x", " ", "y">>

\* C6 as claimed: every input without any brace makes the Extractor raise
\* the no-JSON-found error, with a preview of at most 200 characters.
C6_AsClaimed ==
    (Done /\ fn = "extract" /\ ~HasBrace(response)) =>
        /\ ret.kind = "error"
        /\ ret.err = NoJsonFound
        /\ Len(ret.preview) <= 200

\* C6 amended: an input without any brace that does not parse as JSON as a
\* whole and holds no json fence marker makes the Extractor raise the
\* no-JSON-found error; and whenever the Extractor raises on an input
\* without braces, the preview is the input itself when it has at most 200
\* characters, and else its first 200 characters followed by "...".
C6_BracelessNonJsonRaises ==
    (Done /\ fn = "extract" /\ ~HasBrace(response)) =>
        /\ (~JsonLoads(response).ok /\ Find(response, FenceJson) = -1) =>
               (ret.kind = "error" /\ ret.err = NoJsonFound)
        /\ ret.kind = "error" =>
               ret.preview = IF Len(response) <= 200 THEN response
                             ELSE SubSeq(response, 1, 200) \o <<".", ".", ".">>

\* C6 witness: an input longer than the preview, without braces, was refused
C6_Witness ==
    /\ Done /\ fn = "extract" /\ ~HasBrace(response)
    /\ Len(response) > 200
    /\ ret.kind = "error" /\ ret.err = NoJsonFound
    /\ Len(ret.preview) = 203

\* C7 as claimed: an object text whose only defect is bare-identifier keys
\* is returned with each key wrapped in double quotes, and that text parses.
C7_AsClaimed ==
    (Done /\ fn = "fix" /\ given.fam = "bare_keys") =>
        /\ ret.kind = "text"
        /\ ret.text = given.base
        /\ JsonLoads(ret.text).ok

\* C8 as claimed: a valid object text with one comma inserted before a
\* closing brace or bracket is returned as the original valid text.
C8_AsClaimed ==
    (Done /\ fn = "fix" /\ given.fam = "trailing_comma") =>
        /\ ret.kind = "text"
        /\ ret.text = given.base

\* C9 as claimed: an object text whose two members lack the separating
\* comma is returned as parseable JSON holding both members.
C9_AsClaimed ==
    (Done /\ fn = "fix" /\ given.fam = "missing_comma") =>
        /\ ret.kind = "text"
        /\ JsonLoads(ret.text).val = given.doc

\* the members of document d that are true, false, null or a number keep
\* their JSON type in the parsed value x
KeepsScalarTypes(d, x) ==
    \A k \in DOMAIN d.v :
        d.v[k].t \in {"lit", "num"} =>
            /\ x.t = "obj"
            /\ k \in DOMAIN x.v
            /\ x.v[k].t = d.v[k].t

\* C10 as claimed: when the repair path returns a text, every value after a
\* colon that was true, false, null or a number still has that JSON type.
C10_AsClaimed ==
    (Done /\ fn = "fix" /\ RepairPath /\ ret.kind = "text" /\ given.doc # NoVal) =>
        KeepsScalarTypes(given.doc, JsonLoads(ret.text).val)

(***************************************************************************)
(* The calls of analyze_repository                                         *)
(***************************************************************************)
\* the position of a stage in the order of the code
StageIndex(stage) == CHOOSE i \in 1..Len(Stages) : Stages[i] = stage

\* the stages the order of the report chain names
ReportChain ==
    {"extract_repo_content", "validate_project_alignment", "generate_initial_report",
     "review_report", "revise_report"}

\* stage was called at position i of request r's calls and returned at j
CalledAndReturned(r, stage) ==
    \E i, j \in 1..Len(calls[r]) :
        /\ i < j
        /\ calls[r][i].op = "call" /\ calls[r][i].fn = stage
        /\ calls[r][j].op = "ret" /\ calls[r][j].fn = stage

\* C11: within one request the collaborators are called in the order of
\* Stages (fetch, validate, generate, review, revise), a stage is called
\* only after the stage called before it has returned, and a request that
\* ends with status "success" has called every stage of the report chain
\* and seen it return.
C11_FixedOrder ==
    \A r \in Reqs :
        /\ \A i, j \in 1..Len(calls[r]) :
              (i < j /\ calls[r][i].op = "call" /\ calls[r][j].op = "call") =>
                  /\ StageIndex(calls[r][i].fn) < StageIndex(calls[r][j].fn)
                  /\ \E k \in (i + 1)..(j - 1) :
                        calls[r][k].op = "ret" /\ calls[r][k].fn = calls[r][i].fn
        /\ result[r].status = "success" =>
              \A stage \in ReportChain : CalledAndReturned(r, stage)

\* a request with a career path has gone through all seven calls and
\* answered "success"
C11_Witness ==
    \E r \in Reqs :
        /\ result[r].status = "success"
        /\ Truthy(req[r].career_path)
        /\ \A stage \in StageSet : CalledAndReturned(r, stage)

(***************************************************************************)
(* The report stages and the Extractor                                     *)
(***************************************************************************)
RawStages == {"generate_initial_report", "review_report"}

\* the event at position i of request r's calls is the return of stage
ReturnAt(r, i, stage) == calls[r][i].op = "ret" /\ calls[r][i].fn = stage

\* the model's text went through the Extractor just before the return at i
ExtractedBefore(r, i) ==
    /\ i > 2
    /\ calls[r][i - 1].op = "extract" /\ calls[r][i - 1].fn = calls[r][i].fn
    /\ calls[r][i - 2].op = "answer" /\ calls[r][i - 2].fn = calls[r][i].fn
    /\ calls[r][i - 1].x = calls[r][i - 2].x

\* C12 (as amended): only the text of the revise stage is passed through the
\* Extractor and Repairer: what revise_report returns is the value parsed
\* from the model's text, while generate_initial_report and review_report
\* return the model's text itself, which is what the next stage is given.
C12_OnlyReviseIsExtracted ==
    \A r \in Reqs : \A i \in 1..Len(calls[r]) :
        /\ ReturnAt(r, i, "revise_report") =>
              /\ ExtractedBefore(r, i)
              /\ calls[r][i].x = FinalOf(ExtractJson(calls[r][i - 2].x.v)).val
        /\ (\E stage \in RawStages : ReturnAt(r, i, stage)) =>
              /\ i > 1
              /\ calls[r][i - 1].op = "answer"
              /\ calls[r][i].x = calls[r][i - 1].x
              /\ ~ExtractJson(calls[r][i].x.v).ok \/ ExtractJson(calls[r][i].x.v).val # calls[r][i].x

\* all three report stages of a request have returned, the first with a
\* fenced text that the Extractor would have parsed
C12_Witness ==
    \E r \in Reqs :
        /\ \A stage \in RawStages \cup {"revise_report"} : CalledAndReturned(r, stage)
        /\ ExtractJson(frame[r].initial_report.v).ok

\* C12 as stated: the text of each of the three report stages went through
\* the Extractor before the stage returned
C12_AsClaimed ==
    \A r \in Reqs : \A i \in 1..Len(calls[r]) :
        (\E stage \in RawStages \cup {"revise_report"} : ReturnAt(r, i, stage)) =>
            ExtractedBefore(r, i)

(***************************************************************************)
(* The validate stage                                                      *)
(***************************************************************************)
\* the text s begins with the text p
StartsWith(s, p) == Len(s) >= Len(p) /\ Slice(s, 0, Len(p)) = p

\* C13 as stated: a validator output that begins with "VALID:" is accepted
\* and one that begins with "INVALID:" is rejected, whatever follows the
\* marker.
C13_AsClaimed ==
    \A r \in Reqs : \A i \in 2..Len(calls[r]) :
        (ReturnAt(r, i, "validate_project_alignment") /\ calls[r][i - 1].op = "answer") =>
            /\ StartsWith(Strip(calls[r][i - 1].x.v), ValidMarker) =>
                  ~calls[r][i].x.vrejected
            /\ StartsWith(Strip(calls[r][i - 1].x.v), InvalidMarker) =>
                  calls[r][i].x.vrejected

(***************************************************************************)
(* The review stage                                                        *)
(***************************************************************************)
\* what stage returned to request r before position i of its calls
ReturnedBefore(r, i, stage) ==
    LET j == CHOOSE k \in 1..(i - 1) : ReturnAt(r, k, stage) IN calls[r][j].x

\* C14 as stated: the report given to review_report is what
\* generate_initial_report returned to the same request, and the context
\* given to it is the repository content that was fetched.
C14_AsClaimed ==
    \A r \in Reqs : \A i \in 1..Len(calls[r]) :
        (calls[r][i].op = "call" /\ calls[r][i].fn = "review_report") =>
            /\ calls[r][i].x.report = ReturnedBefore(r, i, "generate_initial_report")
            /\ calls[r][i].x.full_context = ReturnedBefore(r, i, "extract_repo_content")

(***************************************************************************)
(* Failures of the extraction                                              *)
(***************************************************************************)
\* C15: when the extraction or the repair of the revise stage's text fails,
\* revise_report raises: nothing is returned in place of the parsed value,
\* no final report is bound, and the request is answered with status
\* "error"; when they succeed, what is returned is the parsed value itself.
C15_FailureRaisesNoDefault ==
    \A r \in Reqs : \A i \in 1..Len(calls[r]) :
        calls[r][i].op = "extract" =>
            /\ i < Len(calls[r])
            /\ IF FinalOf(ExtractJson(calls[r][i].x.v)).ok
               THEN calls[r][i + 1] =
                        Event("ret", calls[r][i].fn, FinalOf(ExtractJson(calls[r][i].x.v)).val)
               ELSE /\ calls[r][i + 1] = Event("raise", calls[r][i].fn, ReportValidationFailed)
                    /\ i + 1 = Len(calls[r])
                    /\ frame[r].final_report_dict = NoVal
                    /\ result[r] = Failed(ReportValidationFailed)

\* the revise stage was answered with a text that cannot be extracted and
\* the request ended with status "error"
C15_Witness ==
    \E r \in Reqs :
        /\ calls[r] # <<>>
        /\ calls[r][Len(calls[r])] = Event("raise", "revise_report", ReportValidationFailed)
        /\ \E i \in 1..Len(calls[r]) :
              calls[r][i].op = "extract" /\ ~ExtractJson(calls[r][i].x.v).ok
        /\ result[r].status = "error"

(***************************************************************************)
(* No retries                                                              *)
(***************************************************************************)
ModelStages ==
    {"validate_project_alignment", "generate_initial_report", "review_report",
     "revise_report"}

\* how many times request r has called stage
TimesCalled(r, stage) ==
    Cardinality({i \in 1..Len(calls[r]) : calls[r][i].op = "call" /\ calls[r][i].fn = stage})

\* C16: a request calls each model stage at most once, and a raise of a
\* stage (a collaborator's error, or the failed extraction of the revise
\* output) is the last event of the request, which is answered with status
\* "error": nothing is called again.
C16_NoRetry ==
    \A r \in Reqs :
        /\ \A stage \in ModelStages : TimesCalled(r, stage) <= 1
        /\ \A i \in 1..Len(calls[r]) :
              calls[r][i].op = "raise" =>
                  /\ i = Len(calls[r])
                  /\ at[r] = "done"
                  /\ result[r].status = "error"

\* the extraction of the revise output failed after all four model stages
\* had been called once
C16_Witness ==
    \E r \in Reqs :
        /\ \A stage \in ModelStages : TimesCalled(r, stage) = 1
        /\ calls[r][Len(calls[r])] = Event("raise", "revise_report", ReportValidationFailed)
        /\ at[r] = "done"

(***************************************************************************)
(* Requests in flight together                                             *)
(***************************************************************************)
\* what stage returned to request r before position i, NoVal when it has not
OwnReturn(r, i, stage) ==
    IF \E k \in 1..(i - 1) : ReturnAt(r, k, stage)
    THEN ReturnedBefore(r, i, stage) ELSE NoVal

\* the locals of request r at position i of its calls, from its own request
\* and from what its own collaborators returned
OwnLocals(r, i) ==
    [NoFrame EXCEPT
        !.github_repo_clean = Str(CleanGithubUrl(req[r].github_repo)),
        !.codebase = OwnReturn(r, i, "extract_repo_content"),
        !.initial_report = OwnReturn(r, i, "generate_initial_report"),
        !.review_result = OwnReturn(r, i, "review_report")]

\* the insights request r was given, None when it asked for none
OwnInsights(r) ==
    IF \E k \in 1..Len(calls[r]) : ReturnAt(r, k, "generate_career_specific_insights")
    THEN ReturnedBefore(r, Len(calls[r]) + 1, "generate_career_specific_insights")
    ELSE None

\* the report of request r after the post-processing of its own revision
OwnReport(r) == Enhanced(calls[r][Len(calls[r])].x, OwnInsights(r))

\* the response of request r, from its own request and calls alone
OwnResponse(r) ==
    IF calls[r] = <<>>
    THEN Rejected(Str(<<"Invalid GitHub URL. Please provide a repository URL like https://github.com/username/repo">>),
                  "Repository analysis was rejected due to invalid URL")
    ELSE IF calls[r][Len(calls[r])].op = "raise"
    THEN Failed(calls[r][Len(calls[r])].x)
    ELSE IF calls[r][Len(calls[r])].fn = "repo_exists"
    THEN Rejected(Str(<<"Repository not found or private. Please check the GitHub URL or token permissions.">>),
                  "Repository analysis was rejected due to inaccessible repository")
    ELSE IF calls[r][Len(calls[r])].fn = "extract_repo_content"
    THEN Rejected(calls[r][Len(calls[r])].x, "Repository analysis was rejected")
    ELSE IF calls[r][Len(calls[r])].fn = "validate_project_alignment"
    THEN Rejected(Str(calls[r][Len(calls[r])].x.rejection_reason),
                  "Repository validation failed")
    ELSE IF MetadataTestRaises(OwnReport(r), req[r].career_path)
    THEN Failed(NotIterable)
    ELSE Succeeded(WithCareerMetadata(OwnReport(r), req[r].career_path),
                   req[r].career_path)

\* C17: requests in flight together share nothing: whatever the
\* interleaving, each call of a request is made with arguments taken from
\* its own request and from what its own collaborators returned, and its
\* response is the one its own request and collaborator answers give.
C17_RequestsAreIndependent ==
    \A r \in Reqs :
        /\ \A i \in 1..Len(calls[r]) :
              calls[r][i].op = "call" =>
                  calls[r][i].x = Args(calls[r][i].fn, req[r], OwnLocals(r, i))
        /\ at[r] = "done" =>
              /\ result[r] = OwnResponse(r)
              /\ calls[r] = <<>> <=> ~IsValidGithubUrl(CleanGithubUrl(req[r].github_repo))

\* two requests for different repositories are in flight together: one has
\* been answered with status "success" while the other, which asked for a
\* career path, is blocked in its revise call
C17_Witness ==
    \E r, q \in Reqs :
        /\ r # q
        /\ req[r].github_project_name # req[q].github_project_name
        /\ result[r].status = "success"
        /\ Truthy(req[q].career_path)
        /\ at[q] = "revise_report" /\ Pending(q)

(***************************************************************************)
(* Request validation of the routes                                        *)
(***************************************************************************)
\* C18 as stated: a request that fails the handler's own validation (no
\* career_path, an empty or too long career_paths list, an empty tech stack
\* or skills list, fewer than MinReports or more than MaxReports reports) is
\* answered with HTTP status 400.
C18_AsClaimed ==
    (route_pc = "done" /\ RequestInvalid(endpoint, body)) =>
        http_response.status_code = 400

(***************************************************************************)
(* clean_github_url                                                        *)
(***************************************************************************)
\* the cleaned text has no '/tree/' or '/blob/' part left
NoTreeBlob(u) == TreeBlobAt(u) = {}

\* C19 as stated: the result of clean_github_url does not end with '.git'
\* or with a slash, holds no '/tree/...' or '/blob/...' suffix, and
\* cleaning it again returns it unchanged.
C19_AsClaimed ==
    url_pc = "done" =>
        /\ ~EndsWith(url, DotGit)
        /\ ~EndsWith(url, <<"/">>)
        /\ NoTreeBlob(url)
        /\ CleanGithubUrl(url) = url

(***************************************************************************)
(* A closing marker before the window                                      *)
(***************************************************************************)
\* where the content of r starts: after the ```json marker, or at the
\* first brace when there is no marker
ContentStart(r) ==
    IF Find(r, FenceJson) = -1 THEN Find(r, <<"{">>)
    ELSE Find(r, FenceJson) + Len(FenceJson)

\* r has a content start and its last ``` stands before it
ClosingFenceBeforeWindow(r) ==
    /\ Find(r, FenceJson) # -1 \/ Find(r, <<"{">>) # -1
    /\ RFind(RStrip(r), Fence) # -1
    /\ RFind(RStrip(r), Fence) < ContentStart(r)

\* the extractor has searched the window of a response that is not JSON as
\* a whole and whose last ``` stands before the content
SearchedBehindFence ==
    /\ fn = "extract"
    /\ pc \notin {"idle", "extract_try", "extract_window"}
    /\ ~JsonLoads(response).ok
    /\ ClosingFenceBeforeWindow(response)

\* C20 (as amended): a closing marker that stands before the start of the
\* content is treated as not found: the window then runs from the content
\* start to the last '}' of the input, and the search for the window fails,
\* with "No closing JSON structure found", exactly when the input has no
\* '}'.  A window that is found can still fail to be repaired.
C20_FenceBeforeWindowFallsBack ==
    SearchedBehindFence =>
        IF RFind(response, <<"}">>) = -1
        THEN Done /\ ret = RetError(NoClosing, Preview(response))
        ELSE /\ json_str = Strip(Slice(response, ContentStart(response),
                                       RFind(response, <<"}">>) + 1))
             /\ (Done /\ ret.kind = "error") => ret.err # NoClosing

\* a response whose last ``` stands before the content and that has a '}'
\* was cut at that '}' and returned a value
C20_Witness ==
    /\ SearchedBehindFence
    /\ RFind(response, <<"}">>) # -1
    /\ Done /\ ret.kind = "value"

\* a response whose last ``` stands before the content and that has no '}'
C20_WitnessNoBrace ==
    SearchedBehindFence /\ RFind(response, <<"}">>) = -1 /\ Done

\* C20 as stated: with the closing marker before the content, the
\* extraction fails only if the input has no '}'.
C20_AsClaimed ==
    (SearchedBehindFence /\ Done /\ ret.kind = "error") =>
        RFind(response, <<"}">>) = -1

(***************************************************************************)
(* Several blocks in one response                                          *)
(***************************************************************************)
\* the offsets where pat stands in s
Occurrences(s, pat) == {i \in 0..(Len(s) - Len(pat)) : StartsWithAt(s, pat, i)}

\* the first opening boundary of r: the end of its first ```json marker, or
\* its first '{' when it has no marker; -1 when it has neither
FirstOpening(r) ==
    IF Occurrences(r, FenceJson) # {} THEN Min(Occurrences(r, FenceJson)) + Len(FenceJson)
    ELSE IF Occurrences(r, <<"{">>) # {} THEN Min(Occurrences(r, <<"{">>))
    ELSE -1

\* the last closing boundary of r: its last ``` at or after the opening
\* boundary, or else the end of its last '}'; -1 when it has neither
LastClosing(r) ==
    IF \E i \in Occurrences(RStrip(r), Fence) :
          i >= FirstOpening(r) /\ \A j \in Occurrences(RStrip(r), Fence) : j <= i
    THEN Max(Occurrences(RStrip(r), Fence))
    ELSE IF Occurrences(r, <<"}">>) # {} THEN Max(Occurrences(r, <<"}">>)) + 1
    ELSE -1

\* the extractor has searched the window of a response that is not JSON as
\* a whole and has both boundaries
WindowCut ==
    /\ fn = "extract"
    /\ pc \notin {"idle", "extract_try", "extract_window"}
    /\ ~JsonLoads(response).ok
    /\ FirstOpening(response) # -1
    /\ LastClosing(response) # -1

\* C21: the window handed to the Repairer runs from the first opening
\* boundary of the response to its last closing boundary and holds
\* everything between them, the text between two blocks included, with the
\* surrounding whitespace removed.
C21_FirstOpeningLastClosing ==
    WindowCut =>
        json_str = Strip(Slice(response, FirstOpening(response), LastClosing(response)))

\* a response with two blocks has been cut: the window holds both blocks
\* and the prose between them
C21_Witness ==
    /\ WindowCut
    /\ given.fam = "multi_block"
    /\ Find(json_str, BlockA) # -1
    /\ Find(json_str, Between) > Find(json_str, BlockA)
    /\ Find(json_str, BlockB) > Find(json_str, Between)

(***************************************************************************)
(* An unclear verdict                                                      *)
(***************************************************************************)
\* C22: when the validator's text holds neither "VALID:" nor "INVALID:",
\* validate_project_alignment returns vrejected True with the reason that
\* no clear determination was found, the request is answered with status
\* "rejected", and no report stage is called.
C22_UnclearVerdictRejects ==
    \A r \in Reqs : \A i \in 2..Len(calls[r]) :
        (/\ ReturnAt(r, i, "validate_project_alignment")
         /\ calls[r][i - 1].op = "answer"
         /\ Occurrences(calls[r][i - 1].x.v, <<"V", "A", "L", "I", "D", ":">>) = {}) =>
            /\ calls[r][i].x.vrejected
            /\ calls[r][i].x.rejection_reason = <<NoDetermination>>
            /\ i = Len(calls[r])
            /\ at[r] = "done"
            /\ result[r] = Rejected(Str(<<NoDetermination>>), "Repository validation failed")

\* the validator answered "unclear" and the request was rejected
C22_Witness ==
    \E r \in Reqs :
        /\ Len(calls[r]) > 1
        /\ ReturnAt(r, Len(calls[r]), "validate_project_alignment")
        /\ calls[r][Len(calls[r]) - 1].x = Str(<<"u", "n", "c", "l", "e", "a", "r">>)
        /\ result[r].status = "rejected"

(***************************************************************************)
(* The URL check                                                           *)
(***************************************************************************)
\* u does not start with https://github.com/ or names no repository after
\* the owner
LacksOwnerAndRepo(u) ==
    \/ ~StartsWithAt(u, GithubPrefix, 0)
    \/ Occurrences(Slice(u, Len(GithubPrefix), Len(u)), <<"/">>) = {}

InvalidUrlRejection ==
    Rejected(Str(<<"Invalid GitHub URL. Please provide a repository URL like https://github.com/username/repo">>),
             "Repository analysis was rejected due to invalid URL")

\* C23: the format of the cleaned URL is checked before any external call:
\* a request whose cleaned URL is not a GitHub repository URL is answered
\* with status "rejected" without any collaborator having been called, and
\* a request that has called a collaborator has a cleaned URL that matches.
C23_UrlCheckedFirst ==
    \A r \in Reqs :
        /\ (at[r] \notin {"idle", "check_url"}
            /\ LacksOwnerAndRepo(CleanGithubUrl(req[r].github_repo))) =>
              /\ calls[r] = <<>>
              /\ at[r] = "done"
              /\ result[r] = InvalidUrlRejection
        /\ calls[r] # <<>> => IsValidGithubUrl(CleanGithubUrl(req[r].github_repo))

\* a request for https://github.com/o/ (an owner without a repository) has
\* been rejected with no call made
C23_Witness ==
    \E r \in Reqs :
        /\ req[r].github_repo = GithubPrefix \o <<"o", "/">>
        /\ result[r] = InvalidUrlRejection
        /\ calls[r] = <<>>

(***************************************************************************)
(* Rejections                                                              *)
(***************************************************************************)
AfterValidation ==
    {"generate_career_specific_insights", "generate_initial_report", "review_report",
     "revise_report"}

\* the reason a collaborator's answer at position i of request r rejects
\* the repository with, NoVal when the answer does not reject
RejectionAt(r, i) ==
    IF ReturnAt(r, i, "extract_repo_content") /\ calls[r][i].x \in FetchRejections
    THEN calls[r][i].x
    ELSE IF ReturnAt(r, i, "validate_project_alignment") /\ calls[r][i].x.vrejected
    THEN Str(calls[r][i].x.rejection_reason)
    ELSE NoVal

\* C24: when the fetch of the repository is rejected or the validate stage
\* rejects, the request is answered with status "rejected" and that
\* rejection reason, and the insights, generate, review and revise stages
\* are not called for it.
C24_RejectionStopsPipeline ==
    \A r \in Reqs : \A i \in 1..Len(calls[r]) :
        RejectionAt(r, i) # NoVal =>
            /\ result[r].status = "rejected"
            /\ result[r].data = [rejection_reason |-> RejectionAt(r, i)]
            /\ \A k \in 1..Len(calls[r]) : calls[r][k].fn \notin AfterValidation

\* one request was rejected by the fetch and the other by the validator
C24_Witness ==
    \E r, q \in Reqs :
        /\ calls[r] # <<>> /\ calls[q] # <<>>
        /\ ReturnAt(r, Len(calls[r]), "extract_repo_content")
        /\ ReturnAt(q, Len(calls[q]), "validate_project_alignment")
        /\ RejectionAt(r, Len(calls[r])) # NoVal
        /\ RejectionAt(q, Len(calls[q])) # NoVal
        /\ Truthy(req[q].career_path)

(***************************************************************************)
(* Exceptions of the stages                                                *)
(***************************************************************************)
\* C25: analyze_repository never lets an exception of a stage out: every
\* request that has ended has a response with the keys status, data and
\* message and a status among "success", "rejected" and "error", and a
\* request one of whose stages raised (the revise stage on an output it
\* cannot parse included) is answered with status "error" and the
\* exception's text.
C25_AlwaysAResponse ==
    \A r \in Reqs :
        /\ at[r] = "done" =>
              /\ DOMAIN result[r] = {"status", "data", "message"}
              /\ result[r].status \in {"success", "rejected", "error"}
        /\ at[r] # "done" => result[r] = NoResult
        /\ \A i \in 1..Len(calls[r]) :
              calls[r][i].op = "raise" =>
                  /\ at[r] = "done"
                  /\ result[r].status = "error"
                  /\ result[r].data = [error |-> calls[r][i].x]

\* one request ended on a collaborator's exception in the fetch, the other
\* on a revise output that cannot be parsed
C25_Witness ==
    \E r, q \in Reqs :
        /\ calls[r] # <<>> /\ calls[q] # <<>>
        /\ calls[r][Len(calls[r])] = Event("raise", "extract_repo_content", CollaboratorError)
        /\ calls[q][Len(calls[q])] = Event("raise", "revise_report", ReportValidationFailed)
        /\ result[r].status = "error" /\ result[q].status = "error"

(***************************************************************************)
(* The type of the final report                                            *)
(***************************************************************************)
\* C26 as stated: a response with status "success" carries a final report
\* that is a mapping; a revise output that is JSON but not an object never
\* gives a "success" response carrying that value.
C26_AsClaimed ==
    \A r \in Reqs :
        result[r].status = "success" => IsDict(result[r].data.final_report)

(***************************************************************************)
(* Claims about analyze_repository_career_focus                            *)
(***************************************************************************)
FocusDone == focus_pc = "done" /\ inner_result # NoResult

\* the report carries what lines 238-239 add
CareerFocusAdded(res) ==
    /\ TakesCareerItems(res.data.final_report)
    /\ HasKey(res.data.final_report.v[K_report], K_career_analysis)
    /\ LET career_analysis == res.data.final_report.v[K_report].v[K_career_analysis]
       IN  /\ HasKey(career_analysis, K_detailed_alignment)
           /\ HasKey(career_analysis, K_analysis_type)
           /\ career_analysis.v[K_analysis_type] = CareerFocused

\* C27 as the specification states it: when the wrapped analyze_repository
\* returns status 'success' the career-focused call returns 'success' with
\* detailed_alignment and analysis_type under report.career_analysis, and
\* any other inner result is returned unchanged.
C27_AsClaimed ==
    FocusDone =>
        IF inner_result.status = "success"
        THEN focus_result.status = "success" /\ CareerFocusAdded(focus_result)
        ELSE focus_result = inner_result

\* the half of C27 that the code keeps: a result that is not a success is
\* returned as it is
C27_OtherResultsPassThrough ==
    (FocusDone /\ inner_result.status # "success") => focus_result = inner_result

(***************************************************************************)
(* Claims about a failed career-insights call                              *)
(***************************************************************************)
\* the career-insights call of request r failed: what came back at event i
\* is a failure note
InsightsFailedAt(r, i) ==
    /\ ReturnAt(r, i, "generate_career_specific_insights")
    /\ calls[r][i].x \in InsightsFailureNotes

InsightsFailed(r) == \E i \in 1..Len(calls[r]) : InsightsFailedAt(r, i)

\* the final report of r has report.career_analysis.additional_insights
HasAdditionalInsights(r) ==
    /\ TakesCareerItems(result[r].data.final_report)
    /\ HasKey(result[r].data.final_report.v[K_report], K_career_analysis)
    /\ HasKey(result[r].data.final_report.v[K_report].v[K_career_analysis],
              K_additional_insights)

\* C28 as the specification states it: a failed career-insights call does
\* not leak into the report, report.career_analysis.additional_insights is
\* set in the final report only when the career-insights call succeeded.
C28_AsClaimed ==
    \A r \in Reqs :
        (result[r].status = "success" /\ HasAdditionalInsights(r))
            => (CalledAndReturned(r, "generate_career_specific_insights")
                /\ ~InsightsFailed(r))

\* the half of C28 that the code keeps: the failed call does not end the
\* request, generate_initial_report is what is called next
C28_FailureDoesNotAbort ==
    \A r \in Reqs : \A i \in 1..Len(calls[r]) :
        InsightsFailedAt(r, i) =>
            IF i = Len(calls[r])
            THEN at[r] = "generate_initial_report" /\ result[r] = NoResult
            ELSE calls[r][i + 1].op = "call"
                 /\ calls[r][i + 1].fn = "generate_initial_report"

\* a request whose career-insights call failed has gone through generate,
\* review and revise and is answered with status "success"
C28_FailedInsightsThenSuccess ==
    \E r \in Reqs :
        /\ InsightsFailed(r)
        /\ CalledAndReturned(r, "generate_initial_report")
        /\ CalledAndReturned(r, "review_report")
        /\ CalledAndReturned(r, "revise_report")
        /\ result[r].status = "success"

(***************************************************************************)
(* Claims about analyze_multiple_career_paths                              *)
(***************************************************************************)
Compares == multi_pc = "done" /\ multi_result.status = "success"

EntriesAvailable ==
    {i \in 1..Len(multi_result.data.career_comparison) :
        multi_result.data.career_comparison[i].value.analysis_available}

\* C29 as the specification states it: the content is fetched exactly once,
\* a failed career path does not stop the remaining ones, and the success
\* response holds exactly one entry per requested career path, so that
\* total_careers_analyzed is the number of entries and successful_analyses
\* the number of entries with analysis_available true.
C29_AsClaimed ==
    Compares =>
        /\ fetched = 1
        /\ Len(path_log) = Len(career_paths)
        /\ Len(multi_result.data.career_comparison) = Len(career_paths)
        /\ multi_result.data.total_careers_analyzed
               = Len(multi_result.data.career_comparison)
        /\ multi_result.data.successful_analyses = Cardinality(EntriesAvailable)

\* what the code keeps of C29: one fetch, every asked path gone through
\* whatever failed before it, one entry per distinct career path asked for,
\* and successful_analyses counting the available entries
C29_OneEntryPerDistinctPath ==
    Compares =>
        /\ fetched = 1
        /\ Len(path_log) = Len(career_paths)
        /\ {multi_result.data.career_comparison[i].key :
               i \in 1..Len(multi_result.data.career_comparison)}
             = {career_paths[i] : i \in 1..Len(career_paths)}
        /\ Len(multi_result.data.career_comparison)
             = Cardinality({career_paths[i] : i \in 1..Len(career_paths)})
        /\ multi_result.data.total_careers_analyzed = Len(career_paths)
        /\ multi_result.data.successful_analyses = Cardinality(EntriesAvailable)

\* a career path failed and the one after it was analysed
C29_FailureThenAnalysed ==
    /\ Compares
    /\ Len(path_log) = 2
    /\ path_log[1] = "failed" /\ path_log[2] = "analysed"
    /\ career_paths[1] # career_paths[2]

(***************************************************************************)
(* Claims about the Streamlit path                                         *)
(***************************************************************************)
StAnswered == st_pc = "done" /\ initial_report \notin {NoVal, None}

\* the final report is what json.loads made of the model's output, whole or
\* cut to its braces and cleaned
ParsedFromOutput ==
    \/ /\ JsonLoads(initial_report.v).ok
       /\ st_result.data.final_report = JsonLoads(initial_report.v).val
    \/ /\ BracesFound(initial_report.v)
       /\ JsonLoads(CleanedSpan(initial_report.v)).ok
       /\ st_result.data.final_report = JsonLoads(CleanedSpan(initial_report.v)).val

\* C30 as the specification states it: in the Streamlit path a response with
\* status 'success' carries a final report that was parsed from the model's
\* output; an output no JSON can be extracted from never gives a 'success'
\* response with a report the model did not produce.
C30_AsClaimed ==
    (StAnswered /\ st_result.status = "success") => ParsedFromOutput

\* what the code keeps of C30: an output that has braces is answered with
\* what was parsed from it, or with status 'error'
C30_WithBracesParsedOrError ==
    (StAnswered /\ BracesFound(initial_report.v)) =>
        \/ st_result.status = "success" /\ ParsedFromOutput
        \/ st_result = ParseFailed /\ ~JsonLoads(initial_report.v).ok
                                   /\ ~JsonLoads(CleanedSpan(initial_report.v)).ok

\* an output without braces that is not JSON is answered with 'success' and
\* the placeholder
C30_PlaceholderReturned ==
    /\ StAnswered
    /\ ~JsonLoads(initial_report.v).ok
    /\ ~BracesFound(initial_report.v)
    /\ st_result = StSucceeded(PlaceholderReport)


=============================================================================
